---- MODULE Spec2Model ----
(***************************************************************************)
(* A model of the crossline / crossterm_prompt line editor:                *)
(*   - MemoryHistory                       (src/src/history.rs)            *)
(*   - KeyBindings::first and the default table (src/src/key_binding.rs)   *)
(*   - the prompt loop run()               (src/src/lib.rs)                *)
(*   - the retry loop of prompt()          (src/src/lib.rs)                *)
(* Each part has its own specification over the shared variables; the      *)
(* variables a specification does not use keep their initial value.        *)
(***************************************************************************)
EXTENDS Integers, Sequences, FiniteSets, TLC

VARIABLES
    \* ---- build ----
    overflow_checks, \* TRUE: arithmetic overflow panics (debug); FALSE: wraps
    panicked,        \* the thread unwound from a panic
    \* ---- MemoryHistory (history.rs:56-60) ----
    items,           \* Vec<String>
    cursor,          \* Option<usize>
    \* ---- observers of the history calls ----
    pushed,          \* every line pushed since construction / the last clear
    last_call,       \* [op, arg, ret, from] of the most recent History call
                     \* (from: the cursor before the call)
    scen,            \* how far the calls so far follow history_script (-1: not)
    \* ---- key binding resolution (key_binding.rs) ----
    event,           \* Option<KeyEvent>: the key event read last
    resolved,        \* Option<Vec<Command>>: what KeyBindings::first gave for it
    \* ---- one prompt session, run() (lib.rs:206-447) ----
    options,         \* PromptOptions: [history, multiline, password]
    prefix,          \* the prompt prefix
    term,            \* the terminal: [col, row] of its cursor, [width, height]
    raw_mode,        \* raw input-capture mode is enabled
    run_pc,          \* "idle", "editing", "returned" (Ok) or "failed" (Err)
    buffer,          \* let mut buffer
    history_buffer,  \* let mut history_buffer
    out,             \* what the step just taken sent to the writer
    last_key,        \* Option: the classification of the key event just read,
                     \* whether a binding resolved it, and the command
                     \* applied last for it ("none": none)
    ended_by,        \* how the last run() call ended: "none" (it has not),
                     \* "submit", "abort" or "error"
    sessions,        \* run() calls so far
    \* ---- prompt(): the required loop around validate() ----
    prompt_pc,       \* "idle", "required" or "single" (inside run(), called
                     \* through validate() from the loop or directly), "returned"
    attempts,        \* u16 counter of the required loop
    prompt_value,    \* let mut value of the required loop
    depth,           \* validate() frames below the one that waits for run()
    result,          \* Option: what prompt() returned, [ok, v]: Ok(v), or
                     \* Err with the message <<v>>
    all_blank,       \* every line run() has returned so far was whitespace
    last_line,       \* Option: the line run() returned last
    transform_args,  \* the values the transformer was called with, in order,
                     \* when validate() last returned
    rejected,        \* the lines the validation predicate has rejected so far
    \* ---- one TerminalBuffer and the terminal it draws on ----
    tb,              \* the TerminalBuffer: [prefix, buffer, prefix_cols,
                     \* buffer_cols, echo, size, start_position, position,
                     \* lines]
    screen,          \* the terminal: [col, row] of its cursor, [width, height]
    outcome,         \* "ok", or how the last call ended the session: "panic"
                     \* or "err"
    typed,           \* the characters handed to write_char so far, in order
    mode,            \* "new" (constructed), "typing" (only write_char so far),
                     \* "erasing" (only erase_before(1) since the typing),
                     \* "free" (anything else)
    last_op,         \* [op, amount, from, sent]: the call made last, the
                     \* buffer it was made on and what it sent to the writer
    calls            \* calls made so far

bvars == <<overflow_checks, panicked>>
hvars == <<items, cursor, pushed, last_call, scen>>
kvars == <<event, resolved>>
rvars == <<options, prefix, term, raw_mode, run_pc, buffer, history_buffer, out,
           last_key, ended_by, sessions>>
pvars == <<prompt_pc, attempts, prompt_value, depth, result, all_blank, last_line,
           transform_args, rejected>>
tvars == <<tb, screen, outcome, typed, mode, last_op, calls>>
vars == <<bvars, hvars, kvars, rvars, pvars, tvars>>

(***************************************************************************)
(* Option<T>: None is the empty sequence, Some(x) the one-element one.     *)
(***************************************************************************)
None == <<>>
Some(x) == <<x>>
is_some(o) == o # <<>>
unwrap(o) == o[1]

(***************************************************************************)
(* usize arithmetic.  A usize value v is represented by v itself when it   *)
(* is small and by v - 2^64 (a negative number) when it is within reach of *)
(* usize::MAX, so that wrapping subtraction is plain subtraction and the   *)
(* unsigned order is ult.                                                  *)
(***************************************************************************)
Min(a, b) == IF a < b THEN a ELSE b

ult(a, b) == IF (a >= 0) = (b >= 0) THEN a < b ELSE b < 0
ugt(a, b) == ult(b, a)
\* a - b on usize: the wrapped value and whether the subtraction overflowed
usize_sub(a, b) == [v |-> a - b, overflow |-> ult(a, b)]

\* ---- bounds of the model ----
\* HistoryOptions::maximum_size (1000 by default), scaled down
maximum_size == 3
\* lines pushed between two clears
MaxPushes == 5
Items == {"a", "b", "c"}

(***************************************************************************)
(* MemoryHistory.  h is [items, cursor]; a call that mutates returns       *)
(* [h, ret, panic]: the new value, the returned Option<&String> and        *)
(* whether the call panicked.                                              *)
(***************************************************************************)
Hist == [items |-> items, cursor |-> cursor]

new == [items |-> <<>>, cursor |-> None]

len(h) == Len(h.items)

is_empty(h) == h.items = <<>>

position(h) == h.cursor

is_last(h) ==
    IF is_some(h.cursor) THEN unwrap(h.cursor) = Len(h.items) ELSE FALSE

clear(h) == [items |-> <<>>, cursor |-> None]

\* Vec::get: None when the index is out of range
get(h) ==
    IF is_some(h.cursor)
    THEN IF unwrap(h.cursor) >= 0 /\ unwrap(h.cursor) < Len(h.items)
         THEN Some(h.items[unwrap(h.cursor) + 1])
         ELSE None
    ELSE None

\* push() that leaves the cursor where it was
push_keep_cursor(h, item) ==
    LET appended == Append(h.items, item)
        kept == IF Len(appended) > maximum_size THEN Tail(appended) ELSE appended
    IN  [items |-> kept, cursor |-> h.cursor]

\* push() that drops the newest item instead of the oldest when full
push_evict_newest(h, item) ==
    LET appended == Append(h.items, item)
        kept == IF Len(appended) > maximum_size
                THEN SubSeq(appended, 1, Len(appended) - 1)
                ELSE appended
    IN  [items |-> kept, cursor |-> Some(Len(kept))]

push(h, item) ==
    LET appended == Append(h.items, item)
        kept == IF Len(appended) > maximum_size THEN Tail(appended) ELSE appended
    IN  [items |-> kept, cursor |-> Some(Len(kept))]

\* amount.wrapping_abs() as i16 as usize, for a negative i16 amount:
\* -amount, except that i16::MIN stays i16::MIN and sign-extends
I16Min == -32768
wrapping_abs_usize(amount) == IF amount = I16Min THEN I16Min ELSE -amount

move_by(h, amount) ==
    IF is_some(h.cursor)
    THEN LET c == unwrap(h.cursor)
             d == usize_sub(c, wrapping_abs_usize(amount))
             over == IF amount < 0 THEN d.overflow ELSE FALSE
             new_pos == IF amount < 0 THEN d.v ELSE c + amount
             moved == [h EXCEPT !.cursor = Some(new_pos)]
         IN  IF over /\ overflow_checks
             THEN [h |-> h, ret |-> None, panic |-> TRUE]
             ELSE [h |-> moved, ret |-> get(moved), panic |-> FALSE]
    ELSE [h |-> h, ret |-> get(h), panic |-> FALSE]

\* previous() without the clamp at the first item
previous_unclamped(h) ==
    IF is_some(h.cursor)
    THEN move_by(h, -1)
    ELSE [h |-> h, ret |-> None, panic |-> FALSE]

previous(h) ==
    IF is_some(h.cursor)
    THEN LET c == unwrap(h.cursor)
             last == usize_sub(Len(h.items), 1)
             at_last == [h EXCEPT !.cursor = Some(last.v)]
             at_zero == [h EXCEPT !.cursor = Some(0)]
         IN  IF c # 0
             THEN IF last.overflow /\ overflow_checks
                  THEN [h |-> h, ret |-> None, panic |-> TRUE]
                  ELSE IF ugt(c, last.v)
                       THEN [h |-> at_last, ret |-> get(at_last), panic |-> FALSE]
                       ELSE move_by(h, -1)
             ELSE [h |-> at_zero, ret |-> get(at_zero), panic |-> FALSE]
    ELSE [h |-> h, ret |-> None, panic |-> FALSE]

\* next() that always steps forward
next_past_end(h) ==
    IF is_some(h.cursor)
    THEN move_by(h, 1)
    ELSE [h |-> h, ret |-> None, panic |-> FALSE]

next(h) ==
    IF is_some(h.cursor)
    THEN LET c == unwrap(h.cursor)
             last == usize_sub(Len(h.items), 1)
             at_end == [h EXCEPT !.cursor = Some(Len(h.items))]
         IN  IF last.overflow /\ overflow_checks
             THEN [h |-> h, ret |-> None, panic |-> TRUE]
             ELSE IF ult(c, last.v)
                  THEN move_by(h, 1)
                  ELSE [h |-> at_end, ret |-> get(at_end), panic |-> FALSE]
    ELSE [h |-> h, ret |-> None, panic |-> FALSE]

(***************************************************************************)
(* The call sequence of the history navigation scenario: a, b, c pushed    *)
(* onto a fresh history, previous() four times, next() three times, with   *)
(* the value each call is expected to return.                              *)
(***************************************************************************)
history_script ==
    << [op |-> "push", arg |-> "a", ret |-> None],
       [op |-> "push", arg |-> "b", ret |-> None],
       [op |-> "push", arg |-> "c", ret |-> None],
       [op |-> "previous", arg |-> "", ret |-> Some("c")],
       [op |-> "previous", arg |-> "", ret |-> Some("b")],
       [op |-> "previous", arg |-> "", ret |-> Some("a")],
       [op |-> "previous", arg |-> "", ret |-> Some("a")],
       [op |-> "next", arg |-> "", ret |-> Some("b")],
       [op |-> "next", arg |-> "", ret |-> Some("c")],
       [op |-> "next", arg |-> "", ret |-> None] >>

\* the scenario position after a call of op with arg
follow(op, arg) ==
    IF scen >= 0 /\ scen < Len(history_script)
       /\ history_script[scen + 1].op = op
       /\ history_script[scen + 1].arg = arg
    THEN scen + 1
    ELSE -1

NoCall == [op |-> "new", arg |-> "", ret |-> None, from |-> None]

HistoryInit ==
    /\ items = new.items
    /\ cursor = new.cursor
    /\ pushed = <<>>
    /\ last_call = NoCall
    /\ scen = 0

\* the effect of a call with outcome r on the history and on the thread
Returned(r) ==
    /\ items' = r.h.items
    /\ cursor' = r.h.cursor
    /\ panicked' = r.panic

Push(item) ==
    /\ ~panicked
    /\ Len(pushed) < MaxPushes
    /\ items' = push(Hist, item).items
    /\ cursor' = push(Hist, item).cursor
    /\ pushed' = Append(pushed, item)
    /\ last_call' = [op |-> "push", arg |-> item, ret |-> None,
                     from |-> cursor]
    /\ scen' = follow("push", item)
    /\ UNCHANGED <<overflow_checks, panicked, kvars, tvars, rvars, pvars>>

Previous ==
    /\ ~panicked
    /\ Returned(previous(Hist))
    /\ last_call' = [op |-> "previous", arg |-> "", ret |-> previous(Hist).ret,
                     from |-> cursor]
    /\ scen' = follow("previous", "")
    /\ UNCHANGED <<overflow_checks, pushed, kvars, tvars, rvars, pvars>>

NextItem ==
    /\ ~panicked
    /\ Returned(next(Hist))
    /\ last_call' = [op |-> "next", arg |-> "", ret |-> next(Hist).ret,
                     from |-> cursor]
    /\ scen' = follow("next", "")
    /\ UNCHANGED <<overflow_checks, pushed, kvars, tvars, rvars, pvars>>

Clear ==
    /\ ~panicked
    /\ items' = clear(Hist).items
    /\ cursor' = clear(Hist).cursor
    /\ pushed' = <<>>
    /\ last_call' = [op |-> "clear", arg |-> "", ret |-> None,
                     from |-> cursor]
    /\ scen' = 0
    /\ UNCHANGED <<overflow_checks, panicked, kvars, tvars, rvars, pvars>>

KeysInit ==
    /\ event = None
    /\ resolved = None

\* no session: the values of a specification that runs none
NoOptions ==
    [history |-> FALSE, multiline |-> None, password |-> None,
     required |-> None, validation |-> None, transformer |-> None]

RunIdle ==
    /\ options = NoOptions
    /\ prefix = <<>>
    /\ term = [col |-> 0, row |-> 0, width |-> 0, height |-> 0]
    /\ raw_mode = FALSE
    /\ run_pc = "idle"
    /\ buffer = <<>>
    /\ history_buffer = <<>>
    /\ out = <<>>
    /\ last_key = None
    /\ ended_by = "none"
    /\ sessions = 0

PromptIdle ==
    /\ prompt_pc = "idle"
    /\ attempts = 0
    /\ prompt_value = <<>>
    /\ depth = 0
    /\ result = None
    /\ all_blank = TRUE
    /\ last_line = None
    /\ transform_args = <<>>
    /\ rejected = 0

BufferIdle ==
    /\ tb = [prefix |-> <<>>, buffer |-> <<>>, prefix_cols |-> 0,
             buffer_cols |-> 0, echo |-> None, size |-> <<0, 0>>,
             start_position |-> <<0, 0>>, position |-> <<0, 0>>,
             lines |-> [count |-> 1, current |-> 0, newlines |-> <<>>]]
    /\ screen = [col |-> 0, row |-> 0, width |-> 0, height |-> 0]
    /\ outcome = "ok"
    /\ typed = <<>>
    /\ mode = "new"
    /\ last_op = None
    /\ calls = 0

BuildInit ==
    /\ overflow_checks \in BOOLEAN
    /\ panicked = FALSE

InitHistory == BuildInit /\ HistoryInit /\ KeysInit /\ RunIdle /\ PromptIdle /\ BufferIdle

HistoryStep ==
    \/ \E item \in Items : Push(item)
    \/ Previous
    \/ NextItem
    \/ Clear

SpecHistory == InitHistory /\ [][HistoryStep]_vars

(***************************************************************************)
(* The history with move_by called from outside: History::move_by is a     *)
(* method of the public trait.  The calls are followed from the states     *)
(* where the cursor is unset or within [0, len()].                         *)
(***************************************************************************)
MoveAmounts == { I16Min, -2, -1, 0, 1, 2 }

cursor_in_range(h) ==
    is_some(h.cursor) => (unwrap(h.cursor) >= 0 /\ unwrap(h.cursor) <= Len(h.items))

MoveBy(amount) ==
    /\ ~panicked
    /\ cursor_in_range(Hist)
    /\ Returned(move_by(Hist, amount))
    /\ last_call' = [op |-> "move_by", arg |-> amount,
                     ret |-> move_by(Hist, amount).ret, from |-> cursor]
    /\ scen' = -1
    /\ UNCHANGED <<overflow_checks, pushed, kvars, tvars, rvars, pvars>>

MoveStep ==
    \/ \E item \in Items : Push(item)
    \/ Previous
    \/ NextItem
    \/ \E amount \in MoveAmounts : MoveBy(amount)

SpecMove == InitHistory /\ [][MoveStep]_vars

(***************************************************************************)
(* Key events (crossterm KeyEvent { code, modifiers }).  A code is         *)
(* [k, c]: k the KeyCode variant, c the character of Char(c) or the number *)
(* of F(n); modifiers is the set of KeyModifiers flags, NONE the empty     *)
(* set.                                                                    *)
(***************************************************************************)
Char(c) == [k |-> "Char", c |-> c]
F(n) == [k |-> "F", c |-> n]
Key(name) == [k |-> name, c |-> ""]
NONE == {}
SHIFT == {"SHIFT"}
CONTROL == {"CONTROL"}
ALT == {"ALT"}
KeyEvent(code, modifiers) == [code |-> code, modifiers |-> modifiers]
intersects(modifiers, flags) == modifiers \cap flags # {}

(***************************************************************************)
(* Commands (command.rs).  Built with the history feature, as the rest of  *)
(* the model is.                                                           *)
(***************************************************************************)
Cmd(name) == [name |-> name, c |-> ""]
WriteChar(c) == [name |-> "WriteChar", c |-> c]
Abort == Cmd("Abort")
AcceptLine == Cmd("AcceptLine")
BackwardChar == Cmd("BackwardChar")
ForwardChar == Cmd("ForwardChar")
BackwardDeleteChar == Cmd("BackwardDeleteChar")
ClearScreen == Cmd("ClearScreen")
BeginningOfLine == Cmd("BeginningOfLine")
EndOfLine == Cmd("EndOfLine")
BackwardKillLine == Cmd("BackwardKillLine")
KillLine == Cmd("KillLine")
BackwardKillWord == Cmd("BackwardKillWord")
PreviousHistory == Cmd("PreviousHistory")
NextHistory == Cmd("NextHistory")

(***************************************************************************)
(* KeyDefinition { kind, event, actions }.  The handler closure is either  *)
(* the one of the Char definition (the character of the event) or a        *)
(* constant command list.                                                  *)
(***************************************************************************)
KeyDefinition(kind, ev, actions) == [kind |-> kind, event |-> ev, actions |-> actions]
OfChar == [fn |-> "char", cmds |-> <<>>]
Const(cmds) == [fn |-> "const", cmds |-> cmds]
Named(code, modifiers, cmd) ==
    KeyDefinition("Named", Some(KeyEvent(code, modifiers)), Const(<<cmd>>))

\* (d.actions)(event); the Char handler is unreachable!() on any other code
call(actions, ev) ==
    IF actions.fn = "char"
    THEN IF ev.code.k = "Char"
         THEN [cmds |-> <<WriteChar(ev.code.c)>>, panic |-> FALSE]
         ELSE [cmds |-> <<>>, panic |-> TRUE]
    ELSE [cmds |-> actions.cmds, panic |-> FALSE]

\* a table with a definition without matcher for the function keys
bindings_with_func_fallback ==
    << KeyDefinition("Char", None, OfChar),
       KeyDefinition("Func", None, Const(<<>>)),
       Named(Key("Enter"), NONE, AcceptLine),
       Named(Char("c"), CONTROL, Abort) >>

\* impl Default for KeyBindings
default_bindings ==
    << KeyDefinition("Char", None, OfChar),
       Named(Key("Enter"), NONE, AcceptLine),
       Named(Key("Left"), NONE, BackwardChar),
       Named(Key("Right"), NONE, ForwardChar),
       Named(Key("Backspace"), NONE, BackwardDeleteChar),
       Named(Key("Up"), NONE, PreviousHistory),
       Named(Key("Down"), NONE, NextHistory),
       Named(Char("c"), CONTROL, Abort),
       Named(Char("g"), CONTROL, Abort),
       Named(Char("l"), CONTROL, ClearScreen),
       Named(Char("a"), CONTROL, BeginningOfLine),
       Named(Char("e"), CONTROL, EndOfLine),
       Named(Char("u"), CONTROL, BackwardKillLine),
       Named(Char("k"), CONTROL, KillLine),
       Named(Char("w"), CONTROL, BackwardKillWord),
       Named(Char("j"), CONTROL, AcceptLine),
       Named(Char("m"), CONTROL, AcceptLine),
       Named(Char("h"), CONTROL, BackwardDeleteChar),
       Named(Char("p"), CONTROL, PreviousHistory),
       Named(Char("n"), CONTROL, NextHistory) >>

\* the classification that ignores the modifiers of a character event
key_type_by_code(ev) ==
    IF ev.code.k = "Char" THEN "Named"
    ELSE IF ev.code.k = "F" THEN "Func" ELSE "Named"

\* the classification that takes every character event for plain input
key_type_chars_plain(ev) ==
    IF ev.code.k = "Char" THEN "Char"
    ELSE IF ev.code.k = "F" THEN "Func" ELSE "Named"

\* the classification at the head of KeyBindings::first
key_type(ev) ==
    IF ev.code.k = "Char"
    THEN IF intersects(ev.modifiers, CONTROL) \/ intersects(ev.modifiers, ALT)
         THEN "Named"
         ELSE "Char"
    ELSE IF ev.code.k = "F" THEN "Func" ELSE "Named"

\* the closure of find_map gives Some for definition d
definition_matches(d, kind, ev) ==
    IF d.kind = kind
    THEN IF kind = "Named"
         THEN IF is_some(d.event) THEN unwrap(d.event) = ev ELSE FALSE
         ELSE TRUE
    ELSE FALSE

\* the indices of the definitions that give Some, in table order
matching(bindings, ev) ==
    {i \in 1..Len(bindings) : definition_matches(bindings[i], key_type(ev), ev)}

\* KeyBindings::first: [ret: Option<Vec<Command>>, panic]
first(bindings, ev) ==
    LET found == matching(bindings, ev)
    IN  IF found = {}
        THEN [ret |-> None, panic |-> FALSE]
        ELSE LET i == CHOOSE j \in found : \A k \in found : j <= k
                 r == call(bindings[i].actions, ev)
             IN  [ret |-> IF r.panic THEN None ELSE Some(r.cmds), panic |-> r.panic]

(***************************************************************************)
(* The key events the model feeds to KeyBindings::first.                   *)
(***************************************************************************)
KeyChars == {"a", "c", "d", "e", "g", "h", "j", "k", "l", "m", "n", "p",
             "u", "w", "x", "A", " "}
KeyNames == {"Enter", "Left", "Right", "Backspace", "Up", "Down", "Tab",
             "Esc", "Delete", "Home"}
KeyCodes == {Char(c) : c \in KeyChars} \cup {Key(n) : n \in KeyNames}
                \cup {F("1"), F("2")}
KeyEvents == {KeyEvent(code, m) : code \in KeyCodes,
                                  m \in SUBSET {"SHIFT", "CONTROL", "ALT"}}

\* one call of options.bindings.first(&event) on the default table
First(ev) ==
    /\ ~panicked
    /\ event' = Some(ev)
    /\ resolved' = first(default_bindings, ev).ret
    /\ panicked' = first(default_bindings, ev).panic
    /\ UNCHANGED <<overflow_checks, hvars, rvars, pvars, tvars>>

InitKeys == BuildInit /\ HistoryInit /\ KeysInit /\ RunIdle /\ PromptIdle /\ BufferIdle

KeysStep == \E ev \in KeyEvents : First(ev)

SpecKeys == InitKeys /\ [][KeysStep]_vars

(***************************************************************************)
(* Strings are sequences of characters.  String::len counts bytes,         *)
(* UnicodeWidthStr::width counts terminal columns (a control character     *)
(* such as the newline has none).                                          *)
(***************************************************************************)
\* "e-acute" stands for a two-byte, one-column character (U+00E9), "cjk"
\* for a three-byte, two-column one (U+4E16) and "combining-acute" for a
\* two-byte combining mark without a column of its own (U+0301); the others
\* are ASCII
\* "a x 65536" stands for a run of 65536 letters and "cjk x 21846" for a run
\* of 21846 wide characters: the strings too long to write out
byte_len(c) ==
    CASE c = "e-acute" -> 2 [] c = "cjk" -> 3 [] c = "combining-acute" -> 2
      [] c = "a x 65536" -> 65536 [] c = "cjk x 21846" -> 3 * 21846
      [] OTHER -> 1
char_width(c) ==
    CASE c = "cjk" -> 2 [] c = "\n" -> 0 [] c = "combining-acute" -> 0
      [] c = "a x 65536" -> 65536 [] c = "cjk x 21846" -> 2 * 21846
      [] OTHER -> 1

RECURSIVE str_len(_)
str_len(s) == IF s = <<>> THEN 0 ELSE byte_len(Head(s)) + str_len(Tail(s))

RECURSIVE width(_)
width(s) == IF s = <<>> THEN 0 ELSE char_width(Head(s)) + width(Tail(s))

\* the number of characters that end at byte offset n of s, -1 when n is
\* past the end or inside a character (where slicing panics)
char_index(s, n) ==
    LET at == {k \in 0..Len(s) : str_len(SubSeq(s, 1, k)) = n}
    IN  IF at = {} THEN -1 ELSE CHOOSE k \in at : TRUE

\* echo.to_string().repeat(n)
repeat(c, n) == [i \in 1..n |-> c]

\* u16 arithmetic
U16 == 65536
u16_sub(a, b) == [v |-> (a - b + U16) % U16, overflow |-> a < b]

(***************************************************************************)
(* The terminal behind the writer: the cursor and the size.  What it is    *)
(* sent is a sequence of writer operations [op, a].                        *)
(***************************************************************************)
op_write(s) == [op |-> "write", a |-> s]
op_move_to(c, r) == [op |-> "MoveTo", a |-> <<c, r>>]
op_next_line == [op |-> "MoveToNextLine", a |-> <<1>>]
op_clear(what) == [op |-> "Clear", a |-> <<what>>]

\* the cursor after one character is printed (in raw mode a line feed moves
\* down and keeps the column; the last row scrolls)
put(t, c) ==
    IF c = "\n"
    THEN [t EXCEPT !.row = Min(t.row + 1, t.height - 1)]
    ELSE IF t.col + char_width(c) >= t.width
         THEN [t EXCEPT !.col = t.col + char_width(c) - t.width,
                        !.row = Min(t.row + 1, t.height - 1)]
         ELSE [t EXCEPT !.col = t.col + char_width(c)]

RECURSIVE print(_, _)
print(t, s) == IF s = <<>> THEN t ELSE print(put(t, Head(s)), Tail(s))

receive(t, o) ==
    CASE o.op = "write" -> print(t, o.a)
      [] o.op = "MoveTo" -> [t EXCEPT !.col = Min(o.a[1], t.width - 1),
                                      !.row = Min(o.a[2], t.height - 1)]
      [] o.op = "MoveToNextLine" -> [t EXCEPT !.col = 0,
                                      !.row = Min(t.row + 1, t.height - 1)]
      [] OTHER -> t

RECURSIVE receive_all(_, _)
receive_all(t, ops) ==
    IF ops = <<>> THEN t ELSE receive_all(receive(t, Head(ops)), Tail(ops))

(***************************************************************************)
(* The body of run()'s loop.  st is the state of the session while one     *)
(* event is handled: [buffer, history_buffer, hist, term, out, pushes, brk, *)
(* held, cmd, panic]: hist the shared history, out what was sent to the writer   *)
(* (each operation with whether the history lock was held when it was      *)
(* sent), held that this thread holds the lock of the history, cmd the     *)
(* command applied last,                                                   *)
(* pushes the lines pushed to the history, brk that 'prompt was left,      *)
(* panic that the thread panicked.  pos0 is the cursor position and size   *)
(* read at the top of the loop.                                            *)
(***************************************************************************)
prompt_cols == width(prefix)

\* the writer receives ops
send(st, ops) ==
    [st EXCEPT !.out = st.out \o [i \in 1..Len(ops) |->
                                    [op |-> ops[i].op, a |-> ops[i].a,
                                     held |-> st.held]],
               !.term = receive_all(st.term, ops)]

\* history.lock().unwrap(): the guard lives to the end of its block
lock(st) == [st EXCEPT !.held = TRUE]

\* the guard is dropped
unlock(st) == [st EXCEPT !.held = FALSE]

panic(st) == [st EXCEPT !.panic = TRUE]

\* redraw(prefix, writer, position, value)
redraw(st, col, row, value) ==
    send(st, << op_move_to(0, row), op_clear("CurrentLine"), op_write(prefix),
                op_write(value), op_move_to(col, row) >>)

\* end_pos(position, size, prompt_cols, value): [col, row, panic]
end_pos(pos0, value) ==
    LET remainder == u16_sub(pos0.width, prompt_cols)
    IN  IF remainder.overflow /\ overflow_checks
        THEN [col |-> 0, row |-> pos0.row, panic |-> TRUE]
        ELSE IF str_len(value) < remainder.v
             THEN [col |-> prompt_cols + width(value), row |-> pos0.row,
                   panic |-> FALSE]
             ELSE [col |-> 0, row |-> pos0.row, panic |-> TRUE]

\* what is shown for text under the password option
masked(text) ==
    IF is_some(options.password)
    THEN IF is_some(unwrap(options.password).echo)
         THEN repeat(unwrap(unwrap(options.password).echo), width(text))
         ELSE <<>>
    ELSE text

\* write_char(prefix, options, writer, prompt_cols, position, line, c)
write_char(st, pos0, c) ==
    LET d == u16_sub(pos0.col, prompt_cols)
        pos == d.v
        line == st.buffer
        k == char_index(line, pos)
        split == IF pos = str_len(line) THEN <<line, <<>> >>
                 ELSE IF pos > 0
                      THEN <<SubSeq(line, 1, k), SubSeq(line, k + 1, Len(line))>>
                      ELSE << <<>>, <<>> >>
        before == split[1]
        after == split[2]
        new_line == before \o <<c>> \o after
        drawn == send(st, << op_move_to(0, pos0.row), op_clear("CurrentLine"),
                             op_write(prefix), op_write(masked(before)),
                             op_write(masked(<<c>>)), op_write(masked(after)),
                             op_move_to(prompt_cols + pos + 1, pos0.row) >>)
    IN  IF d.overflow /\ overflow_checks THEN panic(st)
        ELSE IF pos # str_len(line) /\ pos > 0 /\ k = -1 THEN panic(st)
        ELSE [drawn EXCEPT !.buffer = new_line]

\* KeyAction::SubmitLine
submit_line(st, pos0) ==
    IF is_some(options.multiline)
    THEN LET pushed_nl == [st EXCEPT !.buffer = Append(st.buffer, "\n")]
             moved == send(pushed_nl, << op_write(<<"\n">>),
                                         op_move_to(0, pos0.row + 1) >>)
         IN  IF unwrap(options.multiline).repeat_prompt
             THEN send(moved, << op_write(prefix) >>)
             ELSE send(moved, << op_clear("CurrentLine") >>)
    ELSE LET saved == IF options.history
                      THEN unlock([lock(st) EXCEPT
                                      !.hist = push(st.hist, st.buffer),
                                      !.pushes = Append(st.pushes, st.buffer)])
                      ELSE st
         IN  [send(saved, << op_next_line >>) EXCEPT !.brk = TRUE, !.by = "submit"]

\* KeyAction::MoveCursorLeft
move_cursor_left(st, pos0) ==
    IF pos0.col > prompt_cols
    THEN send(st, << op_move_to(pos0.col - 1, pos0.row) >>)
    ELSE st

\* KeyAction::MoveCursorRight
move_cursor_right(st, pos0) ==
    LET e == end_pos(pos0, st.buffer)
    IN  IF e.panic THEN panic(st)
        ELSE IF pos0.col < e.col
             THEN send(st, << op_move_to(pos0.col + 1, pos0.row) >>)
             ELSE st

\* KeyAction::EraseCharacter
erase_character(st, pos0) ==
    LET d == u16_sub(pos0.col, prompt_cols)
        pos == d.v
        kb == char_index(st.buffer, pos - 1)
        ka == char_index(st.buffer, pos)
        raw_buffer == IF pos > 0
                      THEN SubSeq(st.buffer, 1, kb)
                               \o SubSeq(st.buffer, ka + 1, Len(st.buffer))
                      ELSE st.buffer
        new_col == IF pos > 0 THEN prompt_cols + pos - 1 ELSE pos0.col
        columns == width(st.buffer)
        updated_line ==
            IF is_some(options.password)
            THEN IF is_some(unwrap(options.password).echo)
                 THEN IF columns > 0
                      THEN repeat(unwrap(unwrap(options.password).echo), columns - 1)
                      ELSE <<>>
                 ELSE <<>>
            ELSE raw_buffer
    IN  IF d.overflow /\ overflow_checks THEN panic(st)
        ELSE IF pos > 0 /\ (kb = -1 \/ ka = -1) THEN panic(st)
        ELSE [redraw(st, new_col, pos0.row, updated_line) EXCEPT !.buffer = raw_buffer]

\* an abort that saves the line as a submit does
abort_prompt_saving(st) ==
    LET saved == IF options.history
                 THEN [st EXCEPT !.hist = push(st.hist, st.buffer),
                                 !.pushes = Append(st.pushes, st.buffer)]
                 ELSE st
    IN  [send(saved, << op_next_line >>) EXCEPT !.brk = TRUE, !.by = "abort"]

\* KeyAction::AbortPrompt
abort_prompt(st) ==
    [send(st, << op_next_line >>) EXCEPT !.brk = TRUE, !.by = "abort"]

\* KeyAction::ClearScreen
clear_screen(st) ==
    send(st, << op_clear("All"), op_move_to(0, 0), op_write(prefix) >>)

\* KeyAction::MoveToLineBegin
move_to_line_begin(st, pos0) == send(st, << op_move_to(prompt_cols, pos0.row) >>)

\* KeyAction::MoveToLineEnd
move_to_line_end(st, pos0) ==
    LET e == end_pos(pos0, st.buffer)
    IN  IF e.panic THEN panic(st)
        ELSE send(st, << op_move_to(e.col, pos0.row) >>)

\* a recalled line replaces the buffer
recall(st, pos0, line) ==
    LET e == end_pos(pos0, line)
    IN  IF e.panic THEN panic(st)
        ELSE [redraw(st, e.col, e.row, line) EXCEPT !.buffer = line]

\* KeyAction::HistoryPrevious
history_previous(st, pos0) ==
    IF options.history
    THEN LET kept == IF is_last(st.hist)
                     THEN [lock(st) EXCEPT !.history_buffer = st.buffer]
                     ELSE lock(st)
             r == previous(st.hist)
             moved == [kept EXCEPT !.hist = r.h]
         IN  unlock(IF r.panic THEN panic(kept)
                    ELSE IF is_some(r.ret)
                         THEN recall(moved, pos0, unwrap(r.ret))
                         ELSE moved)
    ELSE st

\* KeyAction::HistoryNext
history_next(st, pos0) ==
    IF options.history
    THEN LET r == next(st.hist)
             moved == [lock(st) EXCEPT !.hist = r.h]
         IN  unlock(IF r.panic THEN panic(st)
                    ELSE IF is_some(r.ret)
                         THEN recall(moved, pos0, unwrap(r.ret))
                         ELSE recall(moved, pos0, moved.history_buffer))
    ELSE st

\* one arm of `match action`; the commands of command.rs under the names
\* run() matches them by
apply(st, pos0, cmd) ==
    CASE cmd.name = "WriteChar" -> write_char(st, pos0, cmd.c)
      [] cmd.name = "AcceptLine" -> submit_line(st, pos0)
      [] cmd.name = "BackwardChar" -> move_cursor_left(st, pos0)
      [] cmd.name = "ForwardChar" -> move_cursor_right(st, pos0)
      [] cmd.name = "BackwardDeleteChar" -> erase_character(st, pos0)
      [] cmd.name = "Abort" -> abort_prompt(st)
      [] cmd.name = "ClearScreen" -> clear_screen(st)
      [] cmd.name = "BeginningOfLine" -> move_to_line_begin(st, pos0)
      [] cmd.name = "EndOfLine" -> move_to_line_end(st, pos0)
      [] cmd.name = "BackwardKillWord" -> panic(st)
      [] cmd.name = "PreviousHistory" -> history_previous(st, pos0)
      [] cmd.name = "NextHistory" -> history_next(st, pos0)

\* for action in actions { ... }: a break or a panic ends the loop
RECURSIVE apply_all(_, _, _)
apply_all(st, pos0, cmds) ==
    IF cmds = <<>> \/ st.brk \/ st.panic
    THEN st
    ELSE apply_all([apply(st, pos0, Head(cmds)) EXCEPT !.cmd = Head(cmds).name],
                   pos0, Tail(cmds))

\* a guard whose closure does nothing
disable_raw_mode_skipped(raw) == raw

\* the closure of the scopeguard of run(): let _ = disable_raw_mode()
disable_raw_mode(raw) == FALSE

\* the session as the loop body sees it
Session ==
    [buffer |-> buffer, history_buffer |-> history_buffer, hist |-> Hist,
     term |-> term, out |-> <<>>, pushes |-> <<>>, brk |-> FALSE,
     by |-> "none", held |-> FALSE, cmd |-> "none", panic |-> FALSE]

\* a loop body that redraws the line for an event no binding resolves
handle_key_redraw(ev) ==
    LET r == first(default_bindings, ev)
    IN  IF r.panic THEN panic(Session)
        ELSE IF is_some(r.ret) THEN apply_all(Session, term, unwrap(r.ret))
        ELSE redraw(Session, term.col, term.row, buffer)

\* Event::Key(event): if let Some(actions) = options.bindings.first(&event)
handle_key(ev) ==
    LET r == first(default_bindings, ev)
    IN  IF r.panic THEN panic(Session)
        ELSE IF is_some(r.ret) THEN apply_all(Session, term, unwrap(r.ret))
        ELSE Session

\* ---- bounds of the prompt session ----
\* characters in the buffer
MaxBuf == 2
\* run() calls that share the history
MaxSessions == 2
\* the terminal size
TermWidth == 5
TermHeight == 2

RunPrefixes == { <<">", " ">> }
RunOptions ==
    LET multilines == {Some([repeat_prompt |-> FALSE]), Some([repeat_prompt |-> TRUE])}
        passwords  == {Some([echo |-> None]), Some([echo |-> Some("*")])}
        \* with or without a history: single line or multiline;
        \* without a history: a password too
        shapes == (BOOLEAN \X ({None} \cup multilines) \X {None})
                    \cup ({FALSE} \X {None} \X passwords)
    IN  { [history |-> sh[1], multiline |-> sh[2], password |-> sh[3],
           required |-> None, validation |-> None, transformer |-> None] :
          sh \in shapes }

\* the key events a session reads
RunEvents ==
    { KeyEvent(Char("a"), NONE), KeyEvent(Char("b"), SHIFT),
      KeyEvent(Key("Enter"), NONE), KeyEvent(Key("Enter"), SHIFT),
      KeyEvent(Key("Left"), NONE), KeyEvent(Key("Right"), NONE),
      KeyEvent(Key("Backspace"), NONE),
      KeyEvent(Key("Up"), NONE), KeyEvent(Key("Down"), NONE),
      KeyEvent(Char("c"), CONTROL), KeyEvent(Char("d"), CONTROL),
      KeyEvent(Char("l"), CONTROL), KeyEvent(Char("a"), CONTROL),
      KeyEvent(Char("e"), CONTROL), KeyEvent(Char("w"), CONTROL),
      KeyEvent(F("1"), NONE) }

RunInit ==
    /\ options \in RunOptions
    /\ prefix \in RunPrefixes
    /\ term = [col |-> 0, row |-> 0, width |-> TermWidth, height |-> TermHeight]
    /\ raw_mode = FALSE
    /\ run_pc = "idle"
    /\ buffer = <<>>
    /\ history_buffer = <<>>
    /\ out = <<>>
    /\ last_key = None
    /\ ended_by = "none"
    /\ sessions = 0

\* run() is entered: raw mode, the guard, the empty buffers, the prompt
\* (the n-th call at most)
StartRunWithin(n) ==
    /\ ~panicked
    /\ run_pc \in {"idle", "returned"}
    /\ sessions < n
    /\ sessions' = sessions + 1
    /\ raw_mode' = TRUE
    /\ buffer' = <<>>
    /\ history_buffer' = <<>>
    /\ out' = << op_write(prefix) >>
    /\ term' = receive_all(term, << op_write(prefix) >>)
    /\ run_pc' = "editing"
    /\ last_key' = None
    /\ ended_by' = "none"
    /\ UNCHANGED <<bvars, hvars, kvars, tvars, pvars, options, prefix>>

StartRun == StartRunWithin(MaxSessions)

\* one turn of 'prompt with a key event: the size and the cursor are read,
\* the event is resolved and its commands are applied
ReadKey(ev) ==
    \E st \in {handle_key(ev)} :
        /\ ~panicked
        /\ run_pc = "editing"
        /\ Len(st.buffer) <= MaxBuf
        /\ last_key' = Some([kind |-> key_type(ev),
                              resolved |-> is_some(first(default_bindings, ev).ret),
                              cmd |-> st.cmd])
        \* the locals are dropped when run() unwinds or returns; the buffer
        \* is moved out as the returned value
        /\ buffer' = IF st.panic THEN <<>> ELSE st.buffer
        /\ history_buffer' = IF st.brk \/ st.panic THEN <<>> ELSE st.history_buffer
        /\ items' = st.hist.items
        /\ cursor' = st.hist.cursor
        /\ pushed' = pushed \o st.pushes
        /\ term' = st.term
        /\ out' = st.out
        /\ panicked' = st.panic
        /\ run_pc' = IF st.brk THEN "returned" ELSE run_pc
        /\ ended_by' = st.by
        /\ raw_mode' = IF st.brk \/ st.panic THEN disable_raw_mode(raw_mode)
                       ELSE raw_mode
        /\ UNCHANGED <<overflow_checks, last_call, scen, kvars, tvars, pvars, options, prefix,
                       sessions>>

\* Event::Mouse, Event::Resize: nothing is done
ReadOther ==
    /\ ~panicked
    /\ run_pc = "editing"
    /\ last_key' = None
    /\ out' = <<>>
    /\ UNCHANGED <<bvars, hvars, kvars, tvars, pvars, options, prefix, term, raw_mode, run_pc,
                   buffer, history_buffer, ended_by, sessions>>

\* a terminal call of the loop fails: run() returns the error, its buffers
\* are dropped and the guard leaves raw mode
IoError ==
    /\ ~panicked
    /\ run_pc = "editing"
    /\ run_pc' = "failed"
    /\ raw_mode' = disable_raw_mode(raw_mode)
    /\ buffer' = <<>>
    /\ history_buffer' = <<>>
    /\ last_key' = None
    /\ ended_by' = "error"
    /\ out' = <<>>
    /\ UNCHANGED <<bvars, hvars, kvars, tvars, pvars, options, prefix, term, sessions>>

InitRun == BuildInit /\ HistoryInit /\ KeysInit /\ RunInit /\ PromptIdle /\ BufferIdle

RunStep ==
    \/ StartRun
    \/ \E ev \in RunEvents : ReadKey(ev)
    \/ ReadOther
    \/ IoError

SpecRun == InitRun /\ [][RunStep]_vars

(***************************************************************************)
(* Sessions that share one history: more calls of run() than SpecRun       *)
(* follows, over the keys that type, submit, abort and browse.             *)
(***************************************************************************)
MaxSharedSessions == 3

SharedEvents ==
    { KeyEvent(Char("a"), NONE), KeyEvent(Key("Enter"), NONE),
      KeyEvent(Key("Up"), NONE), KeyEvent(Key("Down"), NONE),
      KeyEvent(Char("c"), CONTROL) }

InitShared == InitRun /\ options.history /\ options.multiline = None

StartShared == StartRunWithin(MaxSharedSessions)

SharedStep ==
    \/ StartShared
    \/ \E ev \in SharedEvents : ReadKey(ev)

SpecShared == InitShared /\ [][SharedStep]_vars

(***************************************************************************)
(* Sessions on narrow terminals: one as wide as the prefix and two         *)
(* columns, and one narrower than the prefix, over the keys that type,     *)
(* submit, move to the end of the line and recall.                         *)
(***************************************************************************)
NarrowWidths == { 1, 4 }

NarrowEvents ==
    { KeyEvent(Char("a"), NONE), KeyEvent(Key("Enter"), NONE),
      KeyEvent(Key("Left"), NONE), KeyEvent(Key("Right"), NONE),
      KeyEvent(Char("e"), CONTROL),
      KeyEvent(Key("Up"), NONE), KeyEvent(Key("Down"), NONE) }

NarrowInit ==
    /\ options \in { o \in RunOptions : o.multiline = None /\ o.password = None }
    /\ prefix \in RunPrefixes
    /\ \E w \in NarrowWidths :
          term = [col |-> 0, row |-> 0, width |-> w, height |-> TermHeight]
    /\ raw_mode = FALSE
    /\ run_pc = "idle"
    /\ buffer = <<>>
    /\ history_buffer = <<>>
    /\ out = <<>>
    /\ last_key = None
    /\ ended_by = "none"
    /\ sessions = 0

InitNarrow ==
    BuildInit /\ HistoryInit /\ KeysInit /\ NarrowInit /\ PromptIdle /\ BufferIdle

NarrowStep ==
    \/ StartRun
    \/ \E ev \in NarrowEvents : ReadKey(ev)

SpecNarrow == InitNarrow /\ [][NarrowStep]_vars

(***************************************************************************)
(* prompt() and validate().  One step is one return of run() together with *)
(* the code that follows it up to the next call of run(): the validation   *)
(* predicate, the transformer of every validate() frame that returns, the  *)
(* emptiness check and the attempt counter of the required loop.  What     *)
(* run() returns is an input: the buffer of a session that ended by a      *)
(* submit or by an abort, or an I/O error.                                 *)
(***************************************************************************)
\* char::is_whitespace, on the characters of the model
is_whitespace(c) == c \in {" ", "\n", "\t"}

RECURSIVE trim_start(_)
trim_start(s) ==
    IF s # <<>> /\ is_whitespace(Head(s)) THEN trim_start(Tail(s)) ELSE s

RECURSIVE trim_end(_)
trim_end(s) ==
    IF s # <<>> /\ is_whitespace(s[Len(s)])
    THEN trim_end(SubSeq(s, 1, Len(s) - 1))
    ELSE s

\* str::trim
trim(s) == trim_end(trim_start(s))

\* (validation.validate)(&value): a predicate is given by the lines it rejects
validate_fn(validation, v) == v \notin validation.rejects

\* (transformer.transform)(&value): Cow::Borrowed keeps the value, Cow::Owned
\* replaces it; a transformer is given by what it appends
transform(transformer, v) ==
    IF transformer.appends = <<>> THEN v ELSE v \o transformer.appends

\* a validate() that hands back the trimmed value
transformed_trimmed(v, n) == trim(v)

\* the tail of validate(), once for each of the n frames that return
RECURSIVE transformed(_, _)
transformed(v, n) ==
    IF n = 0 \/ ~is_some(options.transformer) THEN v
    ELSE transformed(transform(unwrap(options.transformer), v), n - 1)

\* what the transformer is called with by the n frames that return
RECURSIVE transform_inputs(_, _)
transform_inputs(v, n) ==
    IF n = 0 \/ ~is_some(options.transformer) THEN <<>>
    ELSE <<v>> \o transform_inputs(transform(unwrap(options.transformer), v), n - 1)

\* attempts += 1 on a u16
u16_add_one(a) == [v |-> (a + 1) % U16, overflow |-> a + 1 >= U16]

\* the loop that breaks one attempt later than the cap
required_break_late(check_value, tried, max_attempts) ==
    check_value # <<>> \/ (max_attempts > 0 /\ tried > max_attempts)

\* the condition of the break of the required loop
required_break(check_value, tried, max_attempts) ==
    check_value # <<>> \/ (max_attempts > 0 /\ tried >= max_attempts)

\* let check_value = if required.trim { value.trim() } else { &value[..] }
check_value(required, v) == IF required.trim THEN trim(v) ELSE v

\* ---- bounds of the prompt call ----
\* the largest attempt cap configured
MaxAttempts == 3
\* run() calls of one prompt() call
MaxCalls == 4
\* lines a validation predicate rejects in a row
MaxRejects == 2

\* the lines a session returns
PromptLines == { <<>>, <<" ">>, <<" ", "a", " ">>, <<"b">> }

RequiredOptions ==
    [history : BOOLEAN, multiline : {None}, password : {None},
     required : {None} \cup
                {Some([trim |-> t, max_attempts |-> n]) :
                    t \in BOOLEAN, n \in 0..MaxAttempts},
     validation : {None, Some([rejects |-> {<<"b">>, <<"x">>}])},
     transformer : {None, Some([appends |-> <<"x">>])}]

\* only the loop without a cap, a history, a predicate and a transformer is
\* followed past MaxCalls sessions: up to the wrap of the u16 counter
uncapped(o) ==
    /\ is_some(o.required)
    /\ unwrap(o.required).max_attempts = 0
    /\ ~o.history
    /\ o.validation = None
    /\ o.transformer = None

call_cap == IF uncapped(options) THEN U16 + 1 ELSE MaxCalls

\* past MaxCalls sessions the lines are the empty one and a non-empty one
lines_now == IF sessions <= MaxCalls THEN PromptLines ELSE { <<>>, <<"b">> }
kinds_now == IF sessions <= MaxCalls THEN {"submit", "abort"} ELSE {"submit"}

\* the prefixes of a call: a short one, one wider than u16::MAX columns, and
\* one longer than u16::MAX bytes that is not wider than u16::MAX columns
RequiredPrefixes ==
    RunPrefixes \cup { << "a x 65536" >>, << ">", "cjk x 21846" >> }

RequiredInit ==
    /\ options \in RequiredOptions
    /\ prefix \in RequiredPrefixes
    /\ term = [col |-> 0, row |-> 0, width |-> 0, height |-> 0]
    /\ raw_mode = FALSE
    /\ run_pc = "idle"
    /\ buffer = <<>>
    /\ history_buffer = <<>>
    /\ out = <<>>
    /\ last_key = None
    /\ ended_by = "none"
    /\ sessions = 0

\* what a session that returned line did to the history: KeyAction::SubmitLine
\* pushes the buffer, KeyAction::AbortPrompt does not
RunEffects(kind, line) ==
    /\ IF kind = "submit" /\ options.history
       THEN /\ items' = push(Hist, line).items
            /\ cursor' = push(Hist, line).cursor
            /\ pushed' = Append(pushed, line)
       ELSE UNCHANGED <<items, cursor, pushed>>
    /\ all_blank' = (all_blank /\ trim(line) = <<>>)
    /\ last_line' = Some(line)
    /\ ended_by' = kind
    /\ UNCHANGED <<overflow_checks, last_call, scen, kvars, tvars, options, prefix, term,
                   run_pc, buffer, history_buffer, last_key>>

\* no session is open: the guard of run() has left raw mode
Outside ==
    /\ raw_mode' = disable_raw_mode(raw_mode)
    /\ out' = <<>>

\* prompt() returns r: its locals are dropped
Return(r) ==
    /\ prompt_pc' = "returned"
    /\ result' = Some(r)
    /\ attempts' = 0
    /\ prompt_value' = <<>>
    /\ depth' = 0
    /\ Outside

\* run() is entered: raw mode, the initial prompt
EnterRun ==
    /\ sessions' = sessions + 1
    /\ raw_mode' = TRUE
    /\ out' = << op_write(prefix) >>

\* another call of run()
RunAgain ==
    /\ sessions < call_cap
    /\ EnterRun

\* a prompt() without the check of the prefix
prefix_never_too_long(p) == FALSE

\* prefix.as_ref().len() > u16::MAX as usize
prefix_too_long(p) == str_len(p) > U16 - 1

\* UnicodeWidthStr::width(prefix).try_into() of run() fails
prompt_cols_out_of_range(p) == width(p) > U16 - 1

\* prompt() is called: the length of the prefix is checked and run() is
\* entered through validate(); run() enters raw mode before it converts
\* the width of the prefix
PromptCall ==
    /\ ~panicked
    /\ prompt_pc = "idle"
    /\ IF prefix_too_long(prefix)
       THEN /\ Return([ok |-> FALSE, v |-> <<"prompt prefix is too long">>])
            /\ UNCHANGED sessions
       ELSE IF prompt_cols_out_of_range(prefix)
       THEN /\ Return([ok |-> FALSE, v |-> <<"io">>])
            /\ sessions' = sessions + 1
       ELSE /\ prompt_pc' = IF is_some(options.required) THEN "required" ELSE "single"
            /\ EnterRun
            /\ UNCHANGED <<attempts, prompt_value, depth, result>>
    /\ UNCHANGED <<bvars, hvars, kvars, tvars, options, prefix, term, run_pc, buffer,
                   history_buffer, last_key, ended_by, all_blank, last_line,
                   transform_args, rejected>>

\* run() returns an error: every ? passes it on
RunFails ==
    /\ ~panicked
    /\ prompt_pc \in {"required", "single"}
    /\ Return([ok |-> FALSE, v |-> <<"io">>])
    /\ ended_by' = "error"
    /\ UNCHANGED <<bvars, hvars, kvars, tvars, options, prefix, term, run_pc, buffer,
                   history_buffer, last_key, sessions, all_blank, last_line,
                   transform_args, rejected>>

\* a rejected line that uses up an attempt
RunRejectedCounted(kind, line) ==
    /\ ~panicked
    /\ prompt_pc \in {"required", "single"}
    /\ is_some(options.validation)
    /\ ~validate_fn(unwrap(options.validation), line)
    /\ depth < MaxRejects
    /\ depth' = depth + 1
    /\ attempts' = attempts + 1
    /\ RunAgain
    /\ RunEffects(kind, line)
    /\ UNCHANGED <<panicked, prompt_pc, prompt_value, result,
                   transform_args>>
    /\ rejected' = rejected + 1

\* run() returns a line the predicate rejects: validate() calls itself
RunRejected(kind, line) ==
    /\ ~panicked
    /\ prompt_pc \in {"required", "single"}
    /\ is_some(options.validation)
    /\ ~validate_fn(unwrap(options.validation), line)
    /\ depth < MaxRejects
    /\ depth' = depth + 1
    /\ RunAgain
    /\ RunEffects(kind, line)
    /\ UNCHANGED <<panicked, prompt_pc, attempts, prompt_value, result,
                   transform_args>>
    /\ rejected' = rejected + 1

\* run() returns a line that passes: the validate() frames return, and
\* prompt() returns or goes round the required loop
RunAccepted(kind, line) ==
    /\ ~panicked
    /\ prompt_pc \in {"required", "single"}
    /\ is_some(options.validation) => validate_fn(unwrap(options.validation), line)
    /\ RunEffects(kind, line)
    /\ transform_args' = transform_inputs(line, depth + 1)
    /\ UNCHANGED rejected
    /\ \E v \in {transformed(line, depth + 1)} :
        IF prompt_pc = "single"
        THEN /\ Return([ok |-> TRUE, v |-> v])
             /\ UNCHANGED <<panicked, sessions>>
        ELSE \E required \in {unwrap(options.required)}, tried \in {u16_add_one(attempts)} :
            IF tried.overflow /\ overflow_checks
            THEN /\ panicked' = TRUE
                 /\ UNCHANGED <<prompt_pc, result, sessions>>
                 /\ attempts' = 0
                 /\ prompt_value' = <<>>
                 /\ depth' = 0
                 /\ Outside
            ELSE IF required_break(check_value(required, v), tried.v,
                                   required.max_attempts)
            THEN /\ Return([ok |-> TRUE, v |-> v])
                 /\ UNCHANGED <<panicked, sessions>>
            ELSE /\ RunAgain
                 /\ attempts' = tried.v
                 /\ prompt_value' = v
                 /\ depth' = 0
                 /\ UNCHANGED <<panicked, prompt_pc, result>>

InitRequired == BuildInit /\ HistoryInit /\ KeysInit /\ RequiredInit /\ PromptIdle /\ BufferIdle

RequiredStep ==
    \/ PromptCall
    \/ RunFails
    \/ \E kind \in kinds_now, line \in lines_now : RunRejected(kind, line)
    \/ \E kind \in kinds_now, line \in lines_now : RunAccepted(kind, line)

SpecRequired == InitRequired /\ [][RequiredStep]_vars

(***************************************************************************)
(* Properties of MemoryHistory, checked under SpecHistory.                 *)
(***************************************************************************)
\* C1: after push a, b, c on a fresh history, previous() x3 returns c, b,
\* a, a fourth previous() returns a again without a panic, then next()
\* returns b, c and finally None: every call that follows the scenario
\* returns the value the scenario expects.
C1_NavigationOrder ==
    scen >= 1 =>
        /\ ~panicked
        /\ last_call.op = history_script[scen].op
        /\ last_call.ret = history_script[scen].ret

C1_Witness ==
    /\ scen = Len(history_script)
    /\ last_call.op = "next"
    /\ last_call.ret = None
    /\ items = <<"a", "b", "c">>

\* C2: after push(item) from any state the cursor is past the end
\* (position() = Some(len()), is_last(), get() = None) and the next
\* previous() returns the item just pushed.
C2_PushResetsNavigation ==
    last_call.op = "push" =>
        /\ position(Hist) = Some(len(Hist))
        /\ is_last(Hist)
        /\ get(Hist) = None
        /\ previous(Hist).ret = Some(last_call.arg)
        /\ ~previous(Hist).panic

\* a push made while browsing at the first item of a full log
C2_Witness ==
    /\ last_call.op = "push"
    /\ last_call.from = Some(0)
    /\ Len(pushed) > maximum_size
    /\ previous(Hist).ret = Some(last_call.arg)

\* C3: len() <= maximum_size, and the items are the most recent
\* min(n, maximum_size) of the n lines pushed since the last clear, in
\* push order.
C3_BoundedOldestFirst ==
    /\ len(Hist) <= maximum_size
    /\ items = SubSeq(pushed,
                      Len(pushed) - Min(Len(pushed), maximum_size) + 1,
                      Len(pushed))

\* lines were evicted and the history was browsed afterwards
C3_Witness ==
    /\ Len(pushed) > maximum_size + 1
    /\ last_call.op = "previous"
    /\ items = SubSeq(pushed, Len(pushed) - maximum_size + 1, Len(pushed))

\* C4: the cursor is unset, past the end (= len()) or an index into the
\* log; it is never greater than len().
C4_CursorInRange ==
    \/ cursor = None
    \/ /\ unwrap(cursor) >= 0
       /\ unwrap(cursor) <= len(Hist)

\* next() at the last item moved the cursor past the end
C4_Witness ==
    /\ last_call.op = "next"
    /\ is_some(last_call.from)
    /\ unwrap(last_call.from) = len(Hist) - 1
    /\ cursor = Some(len(Hist))
    /\ len(Hist) = maximum_size

(***************************************************************************)
(* Properties of the default key binding table, checked under SpecKeys.    *)
(***************************************************************************)
CtrlC == KeyEvent(Char("c"), CONTROL)
CtrlD == KeyEvent(Char("d"), CONTROL)

\* C5: with the default table a Control+'c' event and a Control+'d' event
\* each resolve to the single-command list [Abort].
C5_CtrlC_CtrlD_Abort ==
    (event = Some(CtrlC) \/ event = Some(CtrlD)) => resolved = Some(<<Abort>>)

\* C6: a Char(c) event with neither Control nor Alt (Shift included)
\* resolves to exactly [WriteChar(c)], also for the letters that have a
\* Ctrl binding.
C6_PlainCharWrites ==
    (/\ is_some(event)
     /\ unwrap(event).code.k = "Char"
     /\ ~intersects(unwrap(event).modifiers, CONTROL \cup ALT))
    => /\ resolved = Some(<<WriteChar(unwrap(event).code.c)>>)
       /\ ~panicked

\* Shift + 'c': a letter with a Ctrl binding, typed with Shift
C6_Witness ==
    /\ event = Some(KeyEvent(Char("c"), SHIFT))
    /\ resolved = Some(<<WriteChar("c")>>)

\* the minimum required editing keys and the command of each
required_keys ==
    { <<KeyEvent(Key("Enter"), NONE), AcceptLine>>,
      <<KeyEvent(Key("Left"), NONE), BackwardChar>>,
      <<KeyEvent(Key("Right"), NONE), ForwardChar>>,
      <<KeyEvent(Key("Backspace"), NONE), BackwardDeleteChar>>,
      <<KeyEvent(Char("l"), CONTROL), ClearScreen>>,
      <<KeyEvent(Char("a"), CONTROL), BeginningOfLine>>,
      <<KeyEvent(Char("e"), CONTROL), EndOfLine>>,
      <<KeyEvent(Char("u"), CONTROL), BackwardKillLine>>,
      <<KeyEvent(Char("k"), CONTROL), KillLine>>,
      <<KeyEvent(Char("w"), CONTROL), BackwardKillWord>>,
      <<KeyEvent(Key("Up"), NONE), PreviousHistory>>,
      <<KeyEvent(Key("Down"), NONE), NextHistory>> }

\* C8: the default table resolves each minimum required editing key to
\* exactly its one command.
C8_RequiredKeys ==
    \A rk \in required_keys :
        event = Some(rk[1]) => resolved = Some(<<rk[2]>>)

C8_Witness ==
    /\ event = Some(KeyEvent(Char("w"), CONTROL))
    /\ resolved = Some(<<BackwardKillWord>>)
    /\ \A rk \in required_keys : rk[1] \in KeyEvents

(***************************************************************************)
(* Properties of the prompt loop, checked under SpecRun.                   *)
(***************************************************************************)
\* the explicit matchers of the default table
declared_matchers ==
    {unwrap(default_bindings[i].event) :
        i \in {j \in 1..Len(default_bindings) : is_some(default_bindings[j].event)}}

\* the named events of the model that equal no declared matcher
unbound_named ==
    {ev \in KeyEvents : key_type(ev) = "Named" /\ ev \notin declared_matchers}

\* no event has two definitions whose closure gives a command list
at_most_one_list ==
    \A ev \in KeyEvents : Cardinality(matching(default_bindings, ev)) <= 1

\* KeyBindings::first gives None for each of them
unbound_named_unresolved ==
    \A ev \in unbound_named :
        first(default_bindings, ev) = [ret |-> None, panic |-> FALSE]

\* C7: a key event classified as named whose (code, modifiers) pair equals
\* no declared matcher resolves to no command list, and the turn of the loop
\* that reads it writes nothing and leaves the buffer, the scratch line, the
\* history and the cursor of the terminal as they were, staying in the loop;
\* no event has more than one definition that yields a command list.
C7_UnresolvedIgnored ==
    [][/\ at_most_one_list
       /\ unbound_named_unresolved
       /\ last_key' = Some([kind |-> "Named", resolved |-> FALSE, cmd |-> "none"])
            => /\ out' = <<>>
               /\ UNCHANGED <<buffer, history_buffer, hvars, term, run_pc,
                              raw_mode, panicked>>]_vars

\* a named event without a binding was just read in the middle of a line
C7_Witness ==
    /\ run_pc = "editing"
    /\ last_key = Some([kind |-> "Named", resolved |-> FALSE, cmd |-> "none"])
    /\ buffer # <<>>
    /\ term.col > prompt_cols
    /\ out = <<>>
    /\ {CtrlD, KeyEvent(Key("Enter"), SHIFT)} \subseteq RunEvents \cap unbound_named

(***************************************************************************)
(* Properties of prompt() and its required loop, checked under             *)
(* SpecRequired.                                                           *)
(***************************************************************************)
\* prompt() has not refused the prefix and no call of run() has returned an
\* I/O error
no_failure ==
    /\ ~prefix_too_long(prefix)
    /\ result # Some([ok |-> FALSE, v |-> <<"io">>])

\* C9: with required = {max_attempts: N > 0, trim: true}, no validation (and
\* no transformer) and only whitespace lines submitted, prompt() runs exactly
\* N sessions and then returns Ok with the last submitted value, whose
\* trimmed form is empty; it neither fails nor runs an (N+1)-th session.
C9_CapExhausted ==
    (/\ is_some(options.required)
     /\ unwrap(options.required).max_attempts > 0
     /\ unwrap(options.required).trim
     /\ options.validation = None
     /\ options.transformer = None
     /\ all_blank
     /\ no_failure)
    => /\ ~panicked
       /\ sessions <= unwrap(options.required).max_attempts
       /\ prompt_pc = "required" => attempts = sessions - 1
       /\ prompt_pc = "returned"
            => /\ sessions = unwrap(options.required).max_attempts
               /\ result = Some([ok |-> TRUE, v |-> unwrap(last_line)])
               /\ trim(unwrap(result).v) = <<>>

\* the largest cap is exhausted by lines of blanks
C9_Witness ==
    /\ prompt_pc = "returned"
    /\ options.required = Some([trim |-> TRUE, max_attempts |-> MaxAttempts])
    /\ options.validation = None
    /\ options.transformer = None
    /\ all_blank
    /\ sessions = MaxAttempts
    /\ result = Some([ok |-> TRUE, v |-> <<" ">>])

\* C10: with required.max_attempts = 0 prompt() goes on prompting for any
\* number of submissions while the checked value is empty, and returns at
\* the first submission whose checked value is not.
C10_ZeroRetriesForever ==
    (/\ is_some(options.required)
     /\ unwrap(options.required).max_attempts = 0
     /\ no_failure)
    => /\ ~panicked
       /\ prompt_pc = "required"
            => check_value(unwrap(options.required), prompt_value) = <<>>
       /\ prompt_pc = "returned"
            => /\ unwrap(result).ok
               /\ check_value(unwrap(options.required), unwrap(result).v) # <<>>

\* C11: with required.trim = true and no transformer, the string prompt()
\* returns is exactly the buffer the last session returned, its leading and
\* trailing whitespace included: the emptiness check works on a trimmed view.
C11_CheckKeepsValue ==
    (/\ is_some(options.required)
     /\ unwrap(options.required).trim
     /\ options.transformer = None
     /\ prompt_pc = "returned"
     /\ no_failure)
    => /\ unwrap(result).ok
       /\ unwrap(result).v = unwrap(last_line)

\* a line with a blank on either side was checked trimmed and returned whole
C11_Witness ==
    /\ prompt_pc = "returned"
    /\ is_some(options.required)
    /\ unwrap(options.required).trim
    /\ options.transformer = None
    /\ result = Some([ok |-> TRUE, v |-> <<" ", "a", " ">>])
    /\ trim(unwrap(result).v) # unwrap(result).v

\* C12: with a validation predicate configured, a line that fails it opens
\* a new editing session and is never an error of the call, and every value
\* prompt() hands to the transformer, or returns when there is none, was
\* accepted by the predicate.
C12_ValidationReprompts ==
    is_some(options.validation)
    => /\ (prompt_pc = "returned" /\ no_failure) => unwrap(result).ok
       /\ (/\ ended_by \in {"submit", "abort"}
           /\ ~validate_fn(unwrap(options.validation), unwrap(last_line)))
            => (prompt_pc \in {"required", "single"} /\ raw_mode)
       /\ (prompt_pc = "returned" /\ unwrap(result).ok)
            => IF is_some(options.transformer)
               THEN \A i \in 1..Len(transform_args) :
                        validate_fn(unwrap(options.validation), transform_args[i])
               ELSE validate_fn(unwrap(options.validation), unwrap(result).v)

\* C13: when a prompt() call with a history returns the value of a
\* submitted line, exactly one item was pushed during the call and it is
\* the value returned to the caller (validated, transformed and checked).
C13_HistoryGetsFinalValue ==
    (/\ options.history
     /\ prompt_pc = "returned"
     /\ unwrap(result).ok
     /\ ended_by = "submit")
    => pushed = << unwrap(result).v >>

(***************************************************************************)
(* Properties of the editing session, checked under SpecRun.               *)
(***************************************************************************)
\* C14: an aborted session pushes nothing: no turn of the loop but the one
\* that submits the line changes the contents of the history log, so a
\* session that ends by an abort command leaves them as they were when it
\* started; a first session that was aborted leaves the log empty.
C14_AbortPushesNothing ==
    /\ []((sessions = 1 /\ ended_by = "abort") => (items = <<>> /\ pushed = <<>>))
    /\ [][ended_by' # "submit" => (items' = items /\ pushed' = pushed)]_vars

\* a second session over a history with one line was aborted with text in
\* the buffer: the log still holds the one line of the first session
C14_Witness ==
    /\ options.history
    /\ run_pc = "returned"
    /\ ended_by = "abort"
    /\ sessions = MaxSessions
    /\ buffer # <<>>
    /\ Len(items) = MaxSessions - 1
    /\ pushed = items

\* C15: the result of a call ended by an abort command can be told from the
\* result of a successful submission of an empty line, which is Ok(""):
\* run() never returns Ok("") for a session that was aborted.
C15_AbortDistinct ==
    (run_pc = "returned" /\ ended_by = "abort") => buffer # <<>>

\* C16: raw mode is scoped to the editing session: it is entered only by the
\* step that starts a session, it is on while the session edits, and it is
\* off when no session has started and whenever run() has returned, by
\* submit, by abort or with an I/O error (which is when the validation
\* predicate and the transformer run and when prompt() returns).
C16_RawModeScoped ==
    /\ []((run_pc \in {"idle", "returned", "failed"}) => ~raw_mode)
    /\ []((run_pc = "editing" /\ ~panicked) => raw_mode)
    /\ [][(raw_mode' /\ ~raw_mode)
            => (sessions' = sessions + 1 /\ run_pc # "editing")]_vars

\* the second session ended with an I/O error: raw mode is off
C16_Witness ==
    /\ run_pc = "failed"
    /\ ended_by = "error"
    /\ sessions = MaxSessions
    /\ ~raw_mode

\* C17: a prefix whose display width exceeds u16::MAX is rejected by
\* prompt() with an error before anything else happens: raw mode is never
\* entered, nothing is written, and no session reads an event.
C17_WidePrefixRejected ==
    prompt_cols_out_of_range(prefix)
    => /\ ~raw_mode
       /\ out = <<>>
       /\ sessions = 0
       /\ ended_by = "none"
       /\ prompt_pc \in {"idle", "returned"}
       /\ prompt_pc = "returned"
            => result = Some([ok |-> FALSE, v |-> <<"prompt prefix is too long">>])

\* the call with the prefix of 65536 columns has returned the error
C17_Witness ==
    /\ width(prefix) = U16
    /\ prompt_pc = "returned"
    /\ result = Some([ok |-> FALSE, v |-> <<"prompt prefix is too long">>])
    /\ sessions = 0

(***************************************************************************)
(* TerminalBuffer (terminal_buffer.rs).  A method gives [b, sent, status]: *)
(* the buffer after the call, what it sent to the writer, and "ok",        *)
(* "panic" or "err".  usize is 64 bits wide: a subtraction below zero      *)
(* panics under overflow checks and otherwise wraps to a value above every *)
(* length and above u16::MAX.                                              *)
(***************************************************************************)
MaxTyped == 3
MaxEdits == 6
MaxErase == 2

\* UnicodeSegmentation::graphemes(s, true): a combining mark belongs to the
\* cluster of the character before it, unless that is a control character
RECURSIVE graphemes(_)
graphemes(s) ==
    IF s = <<>> THEN <<>>
    ELSE \* the clusters of all but the last character
         LET g == graphemes(SubSeq(s, 1, Len(s) - 1))
             c == s[Len(s)]
         IN  IF c = "combining-acute" /\ g # <<>> /\ g[Len(g)] # << "\n" >>
             THEN [g EXCEPT ![Len(g)] = @ \o << c >>]
             ELSE Append(g, << c >>)

\* [&str].join("")
RECURSIVE join(_)
join(gs) == IF gs = <<>> THEN <<>> ELSE Head(gs) \o join(Tail(gs))

\* &graphemes[a..b]: panics unless a <= b <= len
slice(gs, a, b) ==
    IF a <= b /\ b <= Len(gs)
    THEN [ok |-> TRUE, v |-> SubSeq(gs, a + 1, b)]
    ELSE [ok |-> FALSE, v |-> <<>>]

\* the indexes from i on that Lines::count takes for the start of a row
RECURSIVE breaks(_, _, _)
breaks(gs, w, i) ==
    IF i >= Len(gs) THEN <<>>
    ELSE (IF gs[i + 1] = << "\n" >> \/ i % w = 0 THEN << i >> ELSE <<>>)
         \o breaks(gs, w, i + 1)

\* Lines::count(size, prefix, buffer, prefix_cols, buffer_cols, newlines):
\* the rows, and newlines as the call leaves it
lines_count(size, pre, buf, pre_cols, buf_cols, newlines) ==
    IF pre_cols + buf_cols <= size[1]
    THEN [rows |-> 1, newlines |-> newlines]
    ELSE LET found == breaks(graphemes(pre) \o graphemes(buf), size[1], 0)
         IN  [rows |-> IF found = <<>> THEN 1 ELSE Len(found),
              newlines |-> newlines \o found]

\* TerminalBuffer::new(prefix, size, position, echo)
tb_new(pre, size, pos, echo) ==
    LET counted == lines_count(size, pre, <<>>, width(pre), 0, <<>>)
    IN  [prefix |-> pre, buffer |-> <<>>, prefix_cols |-> width(pre),
         buffer_cols |-> 0, echo |-> echo, size |-> size,
         start_position |-> pos, position |-> pos,
         lines |-> [count |-> counted.rows, current |-> 0,
                    newlines |-> counted.newlines]]

\* count_rows(&mut self): [b, rows]
count_rows(b) ==
    LET c == lines_count(b.size, b.prefix, b.buffer, b.prefix_cols,
                         b.buffer_cols, b.lines.newlines)
    IN  [b |-> [b EXCEPT !.lines.count = c.rows,
                         !.lines.newlines = c.newlines],
         rows |-> c.rows]

\* set_position(&mut self, position)
set_position(b, pos) == [b EXCEPT !.position = pos]

\* the buffer replaced and the column count left as it was
update_keep_cols(b, value) == [b EXCEPT !.buffer = value]

\* update(&mut self, value)
update(b, value) == [b EXCEPT !.buffer_cols = width(value), !.buffer = value]

\* resize(&mut self, size)
resize(b, size) ==
    count_rows([b EXCEPT !.size = size, !.buffer_cols = width(b.buffer)]).b

\* push(&mut self, writer, c)
tb_push(b, c) ==
    [b |-> [b EXCEPT !.buffer = Append(b.buffer, c)],
     sent |-> << op_write(<< c >>) >>, status |-> "ok"]

\* visible(&self)
visible(b) ==
    IF b.echo # None THEN repeat(b.echo[1], b.buffer_cols) ELSE b.buffer

\* write_prefix(&mut self, writer)
write_prefix(b) == [b |-> b, sent |-> << op_write(b.prefix) >>, status |-> "ok"]

\* redraw(&self, writer, position): what the writer is sent
tb_redraw(b, pos) ==
    IF b.lines.count = 1
    THEN << op_move_to(0, pos[2]), op_clear("CurrentLine") >>
         \o (IF b.lines.current = 0 THEN << op_write(b.prefix) >> ELSE <<>>)
         \o << op_write(visible(b)), op_move_to(pos[1], pos[2]) >>
    ELSE LET gs == graphemes(b.prefix) \o graphemes(b.buffer)
             nl == b.lines.newlines
         IN  << op_move_to(0, b.start_position[2]), op_clear("CurrentLine"),
                op_clear("FromCursorDown"),
                op_move_to(0, b.start_position[2]) >>
             \o (IF Len(nl) >= 2 /\ nl[2] < Len(gs)
                 THEN << op_write(join(SubSeq(gs, 1, nl[2] + 1))),
                         op_next_line >>
                 ELSE <<>>)

\* refresh(&mut self, writer, buf, position)
refresh(b, buf, pos) ==
    [b |-> update(b, buf), sent |-> tb_redraw(update(b, buf), pos),
     status |-> "ok"]

tb_panic(b) == [b |-> b, sent |-> <<>>, status |-> "panic"]
tb_err(b) == [b |-> b, sent |-> <<>>, status |-> "err"]

\* the position write_char moves the cursor to, and lines.current with it
new_pos(b, rows, pos) ==
    IF rows = b.lines.count
    THEN [b |-> b, pos |-> << (b.prefix_cols + pos + 1) % U16, b.position[2] >>,
          ok |-> TRUE]
    ELSE [b |-> [b EXCEPT !.lines.current = rows - b.lines.count],
          pos |-> << 0, b.start_position[2] + (rows - b.lines.count) >>,
          ok |-> b.start_position[2] + (rows - b.lines.count) < U16]

\* write_char(&mut self, writer, c)
tb_write_char(b, c) ==
    LET gs == graphemes(b.buffer)
        col == b.position[1]
        first_line == b.lines.current = 0
        pos == IF first_line THEN col - b.prefix_cols ELSE col
        parts == IF pos = str_len(b.buffer)
                 THEN [ok |-> TRUE, before |-> gs, after |-> <<>>]
                 ELSE [ok |-> slice(gs, 0, pos).ok,
                       before |-> slice(gs, 0, pos).v,
                       after |-> slice(gs, pos, Len(gs)).v]
        new_buf == join(parts.before) \o << c >> \o join(parts.after)
        counted == count_rows(update(b, new_buf))
        moved == new_pos(counted.b, counted.rows, pos)
    IN  IF pos < 0 \/ ~parts.ok THEN tb_panic(b)
        ELSE IF ~moved.ok THEN tb_err(counted.b)
        ELSE [b |-> moved.b, sent |-> tb_redraw(moved.b, moved.pos),
              status |-> "ok"]

\* erase(&mut self, writer, amount, before)
tb_erase(b, amount, before) ==
    LET gs == graphemes(b.buffer)
        column == b.position[1]
        row == b.position[2]
        offset == column - b.prefix_cols
        before_end == IF before
                      THEN IF offset >= amount THEN offset - amount ELSE amount
                      ELSE offset
        after_start == IF before THEN offset
                       ELSE IF offset + amount <= Len(gs) THEN offset + amount
                            ELSE Len(gs)
        \* prefix_cols + (after_start - amount), without overflow checks
        \* taken modulo 2^64
        new_col == IF before THEN b.prefix_cols + (offset - amount) ELSE column
        kept_before == slice(gs, 0, before_end)
        kept_after == slice(gs, after_start, b.buffer_cols)
    IN  IF gs = <<>> THEN [b |-> b, sent |-> <<>>, status |-> "ok"]
        ELSE IF offset < 0 THEN tb_panic(b)
        ELSE IF before /\ offset < amount /\ overflow_checks THEN tb_panic(b)
        ELSE IF ~kept_before.ok \/ ~kept_after.ok THEN tb_panic(b)
        ELSE IF new_col < 0 \/ new_col >= U16 THEN tb_err(b)
        ELSE refresh(b, join(kept_before.v) \o join(kept_after.v),
                     << new_col, row >>)

\* erase_before(&mut self, writer, amount)
erase_before(b, amount) == tb_erase(b, amount, TRUE)

\* erase_after(&mut self, writer, amount)
erase_after(b, amount) == tb_erase(b, amount, FALSE)

(***************************************************************************)
(* One TerminalBuffer in use: it is constructed at the cursor, the prefix  *)
(* is written, and then characters are typed, graphemes erased and the     *)
(* cursor moved inside the text.  The terminal is the source of truth for  *)
(* the cursor: after every call the position is set from where the         *)
(* terminal's cursor was left.  A panic or an error ends the session.      *)
(***************************************************************************)
BufferPrefixes == { <<>>, << ">" >> }
BufferSizes == { << 3, 4 >>, << 10, 4 >> }
Echoes == { None, Some("*") }
ControlChars == { "\n" }
TypedChars == { "a", "b", "e-acute", "cjk", "combining-acute" }

BufferInit ==
    /\ \E pre \in BufferPrefixes, size \in BufferSizes, echo \in Echoes :
          /\ tb = tb_new(pre, size, << 0, 0 >>, echo)
          /\ screen = [col |-> 0, row |-> 0, width |-> size[1],
                       height |-> size[2]]
    /\ outcome = "ok"
    /\ typed = <<>>
    /\ mode = "new"
    /\ last_op = None
    /\ calls = 0

\* the call gave r: the writer's terminal receives what was sent, and the
\* position is read back from it
Finish(r, op, amount) ==
    /\ screen' = receive_all([screen EXCEPT !.width = r.b.size[1],
                                            !.height = r.b.size[2],
                                            !.col = Min(@, r.b.size[1] - 1)],
                             r.sent)
    /\ tb' = IF r.status = "ok"
             THEN set_position(r.b, << screen'.col, screen'.row >>)
             ELSE tb
    /\ outcome' = r.status
    /\ last_op' = Some([op |-> op, amount |-> amount, from |-> tb,
                        sent |-> r.sent])
    /\ calls' = calls + 1
    /\ UNCHANGED <<bvars, hvars, kvars, rvars, pvars>>

WritePrefix ==
    /\ mode = "new"
    /\ \E r \in { write_prefix(tb) } : Finish(r, "write_prefix", 0)
    /\ mode' = "typing"
    /\ typed' = typed

TypeChar(c) ==
    /\ mode # "new" /\ outcome = "ok" /\ calls < MaxEdits
    /\ Len(tb.buffer) < MaxTyped
    /\ \E r \in { tb_write_char(tb, c) } : Finish(r, "write_char", 0)
    /\ mode' = IF mode = "typing" THEN "typing" ELSE "free"
    /\ typed' = Append(typed, c)

EraseBefore(n) ==
    /\ mode # "new" /\ outcome = "ok" /\ calls < MaxEdits
    /\ \E r \in { erase_before(tb, n) } : Finish(r, "erase_before", n)
    /\ mode' = IF mode \in {"typing", "erasing"} /\ n = 1 THEN "erasing"
               ELSE "free"
    /\ typed' = typed

EraseAfter(n) ==
    /\ mode # "new" /\ outcome = "ok" /\ calls < MaxEdits
    /\ \E r \in { erase_after(tb, n) } : Finish(r, "erase_after", n)
    /\ mode' = "free"
    /\ typed' = typed

\* the cursor is moved to column k of the text
MoveCursor(k) ==
    /\ mode # "new" /\ outcome = "ok" /\ calls < MaxEdits
    /\ k <= tb.buffer_cols
    /\ tb.prefix_cols + k < screen.width
    /\ \E r \in { [b |-> tb, status |-> "ok",
                   sent |-> << op_move_to(tb.prefix_cols + k, screen.row) >>] } :
          Finish(r, "set_position", k)
    /\ mode' = "free"
    /\ typed' = typed

\* a control character is pushed: the newline of the multiline mode
PushChar(c) ==
    /\ mode # "new" /\ outcome = "ok" /\ calls < MaxEdits
    /\ Len(tb.buffer) < MaxTyped
    /\ \E r \in { tb_push(tb, c) } : Finish(r, "push", 0)
    /\ mode' = "free"
    /\ typed' = typed

\* the terminal is resized
Resize(size) ==
    /\ mode # "new" /\ outcome = "ok" /\ calls < MaxEdits
    /\ size # tb.size
    /\ \E r \in { [b |-> resize(tb, size), sent |-> <<>>, status |-> "ok"] } :
          Finish(r, "resize", 0)
    /\ mode' = "free"
    /\ typed' = typed

\* UnicodeSegmentation::split_word_bounds(s) on the characters of the model:
\* letters run together, a combining mark stays with what it follows (not
\* with a newline), anything else is a token of its own
is_letter(c) == c \in {"a", "b", "e-acute"}

RECURSIVE split_word_bounds(_)
split_word_bounds(s) ==
    IF s = <<>> THEN <<>>
    ELSE LET ws == split_word_bounds(SubSeq(s, 1, Len(s) - 1))
             c == s[Len(s)]
             tail_of_last == IF ws = <<>> THEN "\n"
                             ELSE ws[Len(ws)][Len(ws[Len(ws)])]
             head_of_last == IF ws = <<>> THEN "\n" ELSE ws[Len(ws)][1]
             joins == \/ c = "combining-acute" /\ head_of_last # "\n"
                      \/ /\ is_letter(c)
                         /\ is_letter(head_of_last)
                         /\ tail_of_last \in {"a", "b", "e-acute", "combining-acute"}
         IN  IF ws # <<>> /\ joins
             THEN [ws EXCEPT ![Len(ws)] = Append(@, c)]
             ELSE Append(ws, << c >>)

\* words.next_back(); words.collect().join("")
without_last_word(s) ==
    LET ws == split_word_bounds(trim_end(s))
    IN  IF ws = <<>> THEN <<>> ELSE join(SubSeq(ws, 1, Len(ws) - 1))

\* erase_word_before(&mut self, writer): the buffer is cut at the byte
\* offset column - prefix_cols
tb_erase_word_before(b) ==
    LET after_start == b.position[1] - b.prefix_cols
        k == IF after_start < 0 THEN -1 ELSE char_index(b.buffer, after_start)
        kept == without_last_word(SubSeq(b.buffer, 1, k))
        after == SubSeq(b.buffer, k + 1, Len(b.buffer))
        new_col == b.prefix_cols + width(kept)
    IN  IF b.buffer = <<>> THEN [b |-> b, sent |-> <<>>, status |-> "ok"]
        ELSE IF k = -1 THEN tb_panic(b)
        ELSE IF new_col >= U16 THEN tb_err(b)
        ELSE refresh(b, kept \o after, << new_col, b.position[2] >>)

EraseWordBefore ==
    /\ mode # "new" /\ outcome = "ok" /\ calls < MaxEdits
    /\ \E r \in { tb_erase_word_before(tb) } : Finish(r, "erase_word_before", 0)
    /\ mode' = "free"
    /\ typed' = typed

InitBuffer ==
    BuildInit /\ HistoryInit /\ KeysInit /\ RunIdle /\ PromptIdle /\ BufferInit

BufferStep ==
    \/ WritePrefix
    \/ \E c \in TypedChars : TypeChar(c)
    \/ \E n \in 1..MaxErase : EraseBefore(n)
    \/ \E n \in 1..MaxErase : EraseAfter(n)
    \/ \E k \in 0..MaxTyped : MoveCursor(k)
    \/ \E c \in ControlChars : PushChar(c)
    \/ \E size \in BufferSizes : Resize(size)

SpecBuffer == InitBuffer /\ [][BufferStep]_vars

(***************************************************************************)
(* The TerminalBuffer with words typed into it: the characters are         *)
(* letters, a space and a two-byte letter, and the words are erased.       *)
(***************************************************************************)
WordChars == { "a", " ", "e-acute" }

WordStep ==
    \/ WritePrefix
    \/ \E c \in WordChars : TypeChar(c)
    \/ \E k \in 0..MaxTyped : MoveCursor(k)
    \/ EraseWordBefore

SpecWord == InitBuffer /\ [][WordStep]_vars

(***************************************************************************)
(* Properties of the TerminalBuffer, checked under SpecBuffer              *)
(***************************************************************************)
\* every grapheme of s takes one column
single_column(s) == \A i \in 1..Len(graphemes(s)) : width(graphemes(s)[i]) = 1

\* C18: after a string of single-column graphemes (multi-byte and
\* multi-codepoint ones included) has been typed character by character into
\* an empty buffer, the cursor left where each redraw put it, the buffer
\* holds the string and the cursor column is the prefix width plus the
\* display width of the string.
C18_TypingKeepsContentAndCursor ==
    (mode = "typing" /\ single_column(typed))
    => /\ outcome = "ok"
       /\ tb.buffer = typed
       /\ tb.position[1] = tb.prefix_cols + width(typed)

\* erase_before(1) calls made since the typing
erased == calls - 1 - Len(typed)

\* C19: after any string (multi-byte and wide characters included) has been
\* typed, erase_before(1) applied once per grapheme with the cursor at the
\* end empties the buffer, and none of the calls fails or panics.
C19_EraseRoundTrip ==
    /\ mode = "erasing" => outcome = "ok"
    /\ (mode = "erasing" /\ erased = Len(graphemes(typed))) => tb.buffer = <<>>

\* the graphemes gs without the m before offset k
without_before(gs, k, m) ==
    join(SubSeq(gs, 1, k - m)) \o join(SubSeq(gs, k + 1, Len(gs)))

\* the graphemes gs without the m after offset k
without_after(gs, k, m) ==
    join(SubSeq(gs, 1, k)) \o join(SubSeq(gs, k + m + 1, Len(gs)))

\* C20: erase_before(n) with the cursor at grapheme offset k removes the
\* min(n, k) graphemes before the cursor and leaves the cursor at offset
\* k - min(n, k); erase_after(n) removes the min(n, len - k) graphemes after
\* the cursor and leaves the cursor where it was; neither fails, so that
\* erase_before at offset 0 of a non-empty buffer changes nothing.
C20_EraseClamped ==
    IF last_op = None THEN TRUE
    ELSE LET from == last_op[1].from
             n == last_op[1].amount
             gs == graphemes(from.buffer)
             k == from.position[1] - from.prefix_cols
         IN  (single_column(from.buffer) /\ k \in 0..Len(gs))
             => /\ last_op[1].op = "erase_before"
                   => /\ outcome = "ok"
                      /\ tb.buffer = without_before(gs, k, Min(n, k))
                      /\ tb.position[1] = from.prefix_cols + k - Min(n, k)
                /\ last_op[1].op = "erase_after"
                   => /\ outcome = "ok"
                      /\ tb.buffer = without_after(gs, k, Min(n, Len(gs) - k))
                      /\ tb.position[1] = from.position[1]

mask_only(s, c) == \A i \in 1..Len(s) : s[i] = c

\* C22: with a mask character set, whatever a redraw writes to the terminal,
\* on one row or on several, is the prefix or mask characters, never a
\* grapheme of the buffer.
C22_MaskedRedraw ==
    (/\ last_op # None
     /\ tb.echo # None
     /\ last_op[1].op \in {"write_char", "erase_before", "erase_after"})
    => \A i \in 1..Len(last_op[1].sent) :
          last_op[1].sent[i].op = "write"
          => \/ last_op[1].sent[i].a = tb.prefix
             \/ mask_only(last_op[1].sent[i].a, tb.echo[1])

(***************************************************************************)
(* Further properties of the editing session, checked under SpecRun and,   *)
(* for the sessions that share a history, under SpecShared                 *)
(***************************************************************************)
\* the newlines in s
RECURSIVE newlines_in(_)
newlines_in(s) ==
    IF s = <<>> THEN 0
    ELSE (IF Head(s) = "\n" THEN 1 ELSE 0) + newlines_in(Tail(s))

\* the step just taken was an accept-line command of the multiline mode
accepted_newline ==
    /\ out' # <<>>
    /\ Head(out').op = "write"
    /\ Head(out').a = << "\n" >>

\* C23: in multiline mode an accept-line command does not end the session
\* and pushes nothing to the history: it appends a newline to the buffer and
\* the editing goes on; the session returns only on an abort command, and
\* the lines entered stay in the buffer, separated by their newlines, while
\* further characters are typed.
C23_MultilineKeepsLines ==
    /\ []((is_some(options.multiline) /\ run_pc = "returned")
          => ended_by = "abort")
    /\ [][is_some(options.multiline)
          => /\ items' = items /\ pushed' = pushed
             /\ accepted_newline
                => (buffer' = Append(buffer, "\n") /\ run_pc' = "editing")
             /\ (is_some(last_key') /\ unwrap(last_key').cmd = "WriteChar"
                 /\ ~panicked')
                => newlines_in(buffer') = newlines_in(buffer)]_vars

\* the history lock was held when operation o was sent to the writer
sent_under_lock(o) == IF "held" \in DOMAIN o THEN o.held ELSE FALSE

\* C24: the lock of the history is held for one history call at a time and
\* is released before anything is drawn: no operation reaches the terminal
\* while the session holds the lock.
C24_LockNotHeldOverRedraw ==
    \A i \in 1..Len(out) : ~sent_under_lock(out[i])

(***************************************************************************)
(* Further properties of prompt(), checked under SpecRequired              *)
(***************************************************************************)
\* C25: an abort command ends the whole call: once a session was ended by an
\* abort, prompt() has returned and no other session is open, whatever the
\* required policy and the validation predicate make of the aborted buffer.
C25_AbortEndsPrompt ==
    ended_by = "abort" => (prompt_pc = "returned" /\ ~raw_mode)

\* C26: the transformer is applied once, to the accepted value: what
\* prompt() returns is transform(v) for the line v that passed validation,
\* however many lines were rejected before it.
C26_TransformedOnce ==
    (/\ prompt_pc = "returned"
     /\ is_some(options.transformer)
     /\ is_some(result) /\ unwrap(result).ok)
    => unwrap(result).v = transform(unwrap(options.transformer), unwrap(last_line))

\* the navigator stands on an item of the history
browsing == is_some(cursor) /\ unwrap(cursor) < Len(items)

\* a history-next command was applied and found no newer item
next_found_nothing ==
    /\ run_pc = "editing"
    /\ options.history
    /\ is_some(last_key') /\ unwrap(last_key').cmd = "NextHistory"
    /\ ~is_some(next(Hist).ret)
    /\ ~panicked'

\* C27: a history-next command that finds no newer item leaves in the buffer
\* the line the user was composing: the scratch line when the navigator
\* stood on the newest item, the buffer as it was when nothing had been
\* browsed.
C27_ScratchRestored ==
    [][next_found_nothing
       => buffer' = IF browsing THEN history_buffer ELSE buffer]_vars

\* run() has just been entered: the initial prompt is all that was written
session_started ==
    run_pc = "editing" /\ last_key = None /\ out = << op_write(prefix) >>

\* C28: every session over a shared history that holds items starts with
\* the navigator composing (is_last() holds), whatever the sessions before
\* it did, so that the first history-previous captures the line in progress.
C28_SessionStartsComposing ==
    (session_started /\ options.history /\ items # <<>>) => is_last(Hist)


\* C29: a line the predicate rejects opens another session and leaves the
\* attempt counter alone; with max_attempts = N > 0 a prompt() call that
\* returns Ok has run at most N sessions plus one for each rejected line,
\* and exactly that many when the value it returns is empty for the check
\* (every attempt was used).
capped == is_some(options.required) /\ unwrap(options.required).max_attempts > 0

C29_RejectionsNotCounted ==
    /\ (capped /\ prompt_pc = "required")
       => /\ attempts < unwrap(options.required).max_attempts
          /\ sessions = attempts + rejected + 1
    /\ (capped /\ prompt_pc = "returned" /\ is_some(result) /\ unwrap(result).ok)
       => /\ sessions <= unwrap(options.required).max_attempts + rejected
          /\ check_value(unwrap(options.required), unwrap(result).v) = <<>>
             => sessions = unwrap(options.required).max_attempts + rejected

C29_Witness ==
    /\ capped
    /\ unwrap(options.required).max_attempts = 2
    /\ prompt_pc = "returned"
    /\ is_some(result) /\ unwrap(result).ok
    /\ unwrap(result).v = <<>>
    /\ rejected = 2
    /\ sessions = 4


\* C30: whenever an insert or an erase is applied, the cursor column read
\* for that key is at least the width of the prefix, so that
\* col - prompt_cols does not underflow.
edits == {"WriteChar", "BackwardDeleteChar"}

edit_applied ==
    run_pc = "editing" /\ is_some(last_key') /\ unwrap(last_key').cmd \in edits

C30_OffsetNeverUnderflows == [][edit_applied => term.col >= prompt_cols]_vars

\* the same for the sessions that do not break lines, or repeat the prompt
\* on each line
prompt_on_each_line ==
    is_some(options.multiline) => unwrap(options.multiline).repeat_prompt

C30_OffsetWithPromptOnEachLine ==
    [][(edit_applied /\ prompt_on_each_line) => term.col >= prompt_cols]_vars


\* C31: a WriteChar applied with the cursor at offset k of a one-line
\* buffer b leaves b[0..k] + c + b[k..]: nothing typed before is lost,
\* also at k = 0 of a buffer that is not empty.
inserted_at(b, k, c) == SubSeq(b, 1, k) \o <<c>> \o SubSeq(b, k + 1, Len(b))

write_applied ==
    /\ run_pc = "editing"
    /\ is_some(last_key') /\ unwrap(last_key').cmd = "WriteChar"
    /\ ~panicked'
    /\ newlines_in(buffer) = 0
    /\ term.col >= prompt_cols
    /\ term.col - prompt_cols <= Len(buffer)

C31_InsertKeepsContent ==
    [][write_applied
       => /\ Len(buffer') = Len(buffer) + 1
          /\ buffer' = inserted_at(buffer, term.col - prompt_cols,
                                   buffer'[term.col - prompt_cols + 1])]_vars

\* the same for the inserts that are not at offset 0 of a buffer that holds text
C31_InsertKeepsContentPastStart ==
    [][(write_applied /\ (term.col > prompt_cols \/ buffer = <<>>))
       => /\ Len(buffer') = Len(buffer) + 1
          /\ buffer' = inserted_at(buffer, term.col - prompt_cols,
                                   buffer'[term.col - prompt_cols + 1])]_vars


\* the cursor at column offset off stands at grapheme offset k of gs
at_offset(gs, k, off) == width(join(SubSeq(gs, 1, k))) = off

\* C32: write_char with the cursor at grapheme offset k of a one-row buffer
\* with the graphemes g[0..n) succeeds and leaves g[0..k] + c + g[k..n), for
\* every k in [0, n], multi-byte and two-column graphemes included.
C32_InsertAtGraphemeOffset ==
    IF last_op = None THEN TRUE
    ELSE LET from == last_op[1].from
             gs == graphemes(from.buffer)
             off == from.position[1] - from.prefix_cols
         IN  (/\ last_op[1].op = "write_char"
              /\ from.lines.count = 1
              /\ newlines_in(from.buffer) = 0
              /\ \E k \in 0..Len(gs) : at_offset(gs, k, off))
             => /\ outcome = "ok"
                /\ \E k \in 0..Len(gs) :
                      /\ at_offset(gs, k, off)
                      /\ tb.buffer = join(SubSeq(gs, 1, k))
                                       \o << typed[Len(typed)] >>
                                       \o join(SubSeq(gs, k + 1, Len(gs)))

\* the same for the buffers whose graphemes are one byte and one column each
plain(s) == \A i \in 1..Len(s) : s[i] \in {"a", "b"}

C32_InsertAtOffsetPlain ==
    (last_op # None /\ plain(last_op[1].from.buffer))
    => C32_InsertAtGraphemeOffset


\* the last call was a write_char that succeeded
wrote_char == last_op # None /\ last_op[1].op = "write_char" /\ outcome = "ok"

\* the rows of prefix + buffer before the last call
rows_before == last_op[1].from.lines.count

\* C33: a write_char that makes prefix + buffer take more rows than before
\* advances lines.current and leaves the cursor at column 0 of the row
\* start row + lines.current; any other write_char moves the cursor one
\* column on in its row (where the row has such a column).
room_in_row == last_op[1].from.position[1] + 1 < tb.size[1]

C33_WrapReflow ==
    wrote_char
    => IF tb.lines.count > rows_before
       THEN /\ tb.lines.current > last_op[1].from.lines.current
            /\ tb.position = << 0, tb.start_position[2] + tb.lines.current >>
       ELSE room_in_row
            => tb.position = << last_op[1].from.position[1] + 1,
                                last_op[1].from.position[2] >>

\* the second half alone: without a new row the cursor moves one column on
C33_SameRowAdvance ==
    (wrote_char /\ tb.lines.count = rows_before /\ room_in_row)
    => tb.position = << last_op[1].from.position[1] + 1,
                        last_op[1].from.position[2] >>


\* the geometry computed from scratch for the prefix, buffer and size of b
fresh(b) ==
    lines_count(b.size, b.prefix, b.buffer, b.prefix_cols, b.buffer_cols, <<>>)

\* the last call redrew the line, or was a resize (an erase_before of no
\* more than stands before the cursor)
redrew ==
    /\ last_op # None
    /\ outcome = "ok"
    /\ \/ last_op[1].op = "resize"
       \/ /\ last_op[1].op \in {"write_char", "erase_before", "erase_after"}
          /\ last_op[1].sent # <<>>
    /\ last_op[1].op = "erase_before"
       => last_op[1].amount
             <= last_op[1].from.position[1] - last_op[1].from.prefix_cols

\* C34: after every call that redraws (write_char, the erases through
\* refresh) and after a resize, lines.count and lines.newlines are what the
\* count gives from scratch for the current prefix, buffer and size.
C34_GeometryFresh ==
    redrew => /\ tb.lines.count = fresh(tb).rows
              /\ tb.lines.newlines = fresh(tb).newlines

\* the row count alone, after the calls that count the rows
C34_RowCountAfterCount ==
    (redrew /\ last_op[1].op \in {"write_char", "resize"})
    => tb.lines.count = fresh(tb).rows


\* what the write calls among the operations sent put on the terminal
RECURSIVE written(_)
written(sent) ==
    IF sent = <<>> THEN <<>>
    ELSE (IF Head(sent).op = "write" THEN Head(sent).a ELSE <<>>)
         \o written(Tail(sent))

\* the last call redrew a text of more than one row with nothing masked,
\* from breakpoints that are those of the text
redrew_rows ==
    /\ redrew
    /\ last_op[1].op # "resize"
    /\ tb.lines.count > 1
    /\ tb.echo = None
    /\ tb.lines.newlines = fresh(tb).newlines

\* C35: a redraw of a prefix + buffer of more than one row starts at the
\* start row, clears from there down and writes the whole text: the
\* graphemes written, in order, are those of the prefix and then the buffer.
C35_MultiRowRedrawWritesAll ==
    redrew_rows
    => /\ Head(last_op[1].sent).op = "MoveTo"
       /\ Head(last_op[1].sent).a = << 0, tb.start_position[2] >>
       /\ written(last_op[1].sent) = tb.prefix \o tb.buffer

\* what is written is at least the beginning of the text
C35_MultiRowRedrawWritesStart ==
    redrew_rows
    => \E n \in 0..Len(tb.prefix \o tb.buffer) :
          written(last_op[1].sent) = SubSeq(tb.prefix \o tb.buffer, 1, n)


(***************************************************************************)
(* Properties of erase_word_before, checked under SpecWord                 *)
(***************************************************************************)
\* C36: erase_word_before with the cursor at grapheme offset k of a one-row
\* buffer leaves the text before the cursor without its trailing
\* whitespace and its last word, followed by the text after the cursor
\* unchanged, with the cursor at the end of the shortened text; at offset 0
\* and on an empty buffer nothing changes.  The call does not fail.
C36_EraseWordBefore ==
    IF last_op = None THEN TRUE
    ELSE LET from == last_op[1].from
             gs == graphemes(from.buffer)
             off == from.position[1] - from.prefix_cols
         IN  (/\ last_op[1].op = "erase_word_before"
              /\ from.lines.count = 1
              /\ \E k \in 0..Len(gs) : at_offset(gs, k, off))
             => /\ outcome = "ok"
                /\ \E k \in 0..Len(gs) :
                      /\ at_offset(gs, k, off)
                      /\ tb.buffer = without_last_word(join(SubSeq(gs, 1, k)))
                                       \o join(SubSeq(gs, k + 1, Len(gs)))
                      /\ tb.position[1] =
                            from.prefix_cols
                            + width(without_last_word(join(SubSeq(gs, 1, k))))
                /\ (from.buffer = <<>> \/ off = 0)
                   => (tb.buffer = from.buffer /\ tb.position = from.position)

\* the same for the buffers whose characters are one byte each
one_byte_each(s) == \A i \in 1..Len(s) : byte_len(s[i]) = 1

C36_EraseWordBeforeOneByte ==
    (last_op # None /\ one_byte_each(last_op[1].from.buffer))
    => C36_EraseWordBefore


(***************************************************************************)
(* Properties of end_pos, checked under SpecNarrow                         *)
(***************************************************************************)
\* the commands that place the cursor with end_pos
uses_end_pos == {"ForwardChar", "EndOfLine", "PreviousHistory", "NextHistory"}

end_pos_applied ==
    run_pc = "editing" /\ is_some(last_key') /\ unwrap(last_key').cmd \in uses_end_pos

\* C37: end_pos returns for every value and terminal size: a history
\* recall, a move to the right and a move to the end of the line do not
\* end the session abnormally, also when the value is as long as the room
\* right of the prefix or the prefix is wider than the terminal; the move
\* to the end of the line leaves the cursor right after the value.
C37_EndPosTotal ==
    [][end_pos_applied
       => /\ ~panicked'
          /\ (unwrap(last_key').cmd = "EndOfLine"
              /\ prompt_cols + width(buffer) < term.width)
             => term'.col = prompt_cols + width(buffer)]_vars

\* the same where the value is shorter than the room right of the prefix
has_room(value) ==
    term.width >= prompt_cols /\ str_len(value) < term.width - prompt_cols

C37_EndPosWhereItFits ==
    [][(/\ end_pos_applied
        /\ has_room(buffer)
        /\ has_room(history_buffer)
        /\ \A i \in 1..Len(items) : has_room(items[i]))
       => /\ ~panicked'
          /\ (unwrap(last_key').cmd = "EndOfLine"
              /\ prompt_cols + width(buffer) < term.width)
             => term'.col = prompt_cols + width(buffer)]_vars


(***************************************************************************)
(* The shape of the default table, checked under SpecKeys                  *)
(***************************************************************************)
KeyTypes == {"Char", "Named", "Func"}

\* the definitions of a classification that have no matcher
null_matchers(kind) ==
    {i \in 1..Len(default_bindings) :
        default_bindings[i].kind = kind /\ ~is_some(default_bindings[i].event)}

\* a definition of the event's classification has the event as its matcher
explicit_match(ev) ==
    \E i \in 1..Len(default_bindings) :
        /\ default_bindings[i].kind = key_type(ev)
        /\ is_some(default_bindings[i].event)
        /\ unwrap(default_bindings[i].event) = ev

\* C38 as stated: the classification of every event has exactly one
\* definition without matcher in the default table, and an event that no
\* matcher of its classification equals is resolved by it.
C38_FallbackPerClassification ==
    is_some(event)
    => /\ Cardinality(null_matchers(key_type(unwrap(event)))) = 1
       /\ ~explicit_match(unwrap(event)) => is_some(resolved)

\* C38, amended: the default table has exactly one definition without
\* matcher, for character input, and none for named keys and function
\* keys; it resolves every character input to the character's insertion,
\* and a named or function key that equals no matcher resolves to nothing.
C38_FallbackForCharsOnly ==
    /\ \A kind \in KeyTypes :
          Cardinality(null_matchers(kind)) = IF kind = "Char" THEN 1 ELSE 0
    /\ (is_some(event) /\ ~explicit_match(unwrap(event)))
       => /\ ~panicked
          /\ resolved = IF key_type(unwrap(event)) = "Char"
                        THEN Some(<<WriteChar(unwrap(event).code.c)>>)
                        ELSE None

\* a function key has been looked up and nothing came of it
C38_Witness ==
    /\ event = Some(KeyEvent(F("1"), NONE))
    /\ resolved = None
    /\ null_matchers("Func") = {}
    /\ null_matchers("Char") = {1}


\* C39: the attempt counter of the required loop counts every value
\* validate() has returned and stays a 16-bit number: the increment never
\* overflows, whatever the number of empty submissions, and the loop goes
\* on prompting.
C39_AttemptCounterInRange ==
    (is_some(options.required) /\ ~prefix_too_long(prefix))
    => /\ ~panicked
       /\ prompt_pc = "required"
          => /\ attempts = sessions - rejected - 1
             /\ attempts < U16


(***************************************************************************)
(* Properties of move_by, checked under SpecMove                           *)
(***************************************************************************)
\* C40: after move_by(amount), for every amount and from every state, the
\* call has not panicked and the cursor is within [0, len()]; with the
\* cursor unset the call changes nothing and returns None.
C40_MoveByInRange ==
    last_call.op = "move_by"
    => /\ ~panicked
       /\ cursor_in_range(Hist)
       /\ last_call.from = None => (cursor = None /\ last_call.ret = None)

\* the same for the amounts that lead to a position within [0, len()]
C40_MoveByWhereInRange ==
    (/\ last_call.op = "move_by"
     /\ is_some(last_call.from)
        => /\ last_call.arg # I16Min
           /\ unwrap(last_call.from) + last_call.arg >= 0
           /\ unwrap(last_call.from) + last_call.arg <= Len(items))
    => /\ ~panicked
       /\ cursor_in_range(Hist)
       /\ is_some(last_call.from)
          => cursor = Some(unwrap(last_call.from) + last_call.arg)
       /\ last_call.from = None => (cursor = None /\ last_call.ret = None)

====
